---- MODULE Spec2Model ----
(***************************************************************************)
(* Sync subsystem of the Deadly Sins Shockball analytics dashboard:        *)
(* the sync worker (src/src/workers/sync.ts), the Shockball API client     *)
(* (src/src/lib/shockball/client.ts), the Supabase server client           *)
(* (src/src/lib/supabase/client.ts) and the relational schema              *)
(* (migration 001_initial_schema).                                         *)
(*                                                                         *)
(* Every await of the worker is one step of the model.  The upstream API   *)
(* and the datastore are the environment: the upstream holds the two list  *)
(* feeds and the match details, the datastore holds the tables.            *)
(***************************************************************************)
EXTENDS Integers, Sequences, FiniteSets, TLC

(***************************************************************************)
(* Bounds of the model.                                                    *)
(***************************************************************************)
MaxCalls == 3        \* public operations started in one behaviour; an injected
                     \* failure takes one of them
MaxFaults == 1       \* transient upstream / datastore failures injected
MaxChanges == 1      \* upstream data changes in one behaviour

(***************************************************************************)
(* Nullable values: <<>> is null / undefined, <<v>> is the value v.        *)
(***************************************************************************)
Null == <<>>
Some(v) == <<v>>
IsNull(x) == x = <<>>
Val(x) == x[1]

Reverse(s) == [k \in 1..Len(s) |-> s[Len(s) + 1 - k]]
Take(s, n) == SubSeq(s, 1, IF Len(s) < n THEN Len(s) ELSE n)

VARIABLES
  env,              \* process.env: which credentials are configured
  upStatus,         \* upstream: lifecycle status of every match
  upVersion,        \* upstream: Last-Modified time of each list endpoint
  clock,            \* upstream: time of the latest data change
  payload,          \* upstream: player stats and events of a match detail
  teams,            \* table teams (ids)
  competitions,     \* table competitions (ids)
  conferences,      \* table conferences (ids)
  leagues,          \* table leagues (ids)
  matches,          \* table matches: id -> row or NoRow
  player_match_stats,  \* table player_match_stats (rows)
  match_events,     \* table match_events (rows)
  energy_snapshots, \* table energy_snapshots (rows)
  sync_log,         \* table sync_log, in fetched_at order
  inv,              \* the running invocation of every caller
  calls,            \* public operations started so far
  faults,           \* transient failures injected so far
  downloads,        \* history: full detail bodies downloaded, per match
  last,             \* history: the syncMatchReplay call that returned last, while
                    \* no other call has started and upstream data has not changed
  terminated,       \* history: invocations the host has terminated mid-flight
  rateLimit,        \* client.ts: rateLimitRemaining, rateLimitReset
  client,           \* history: the client call made last, with its result
  request,          \* the administrative request received last
  issued            \* history: the tokens 200 responses have carried, by endpoint

store == <<teams, competitions, conferences, leagues, matches,
           player_match_stats, match_events, energy_snapshots>>
upstream == <<upStatus, upVersion, clock, payload>>
host == <<env, terminated, client, request, issued>>
vars == <<host, rateLimit, upstream, store, sync_log, inv, calls, faults, downloads, last>>

(***************************************************************************)
(* The catalogue of the upstream: two matches, one of the tracked team.    *)
(***************************************************************************)
DEADLY_SINS_TEAM_ID == "ds"

Matches == {"m1", "m2"}
MatchOrder == <<"m1", "m2">>
MatchStatus == {"SCHEDULED", "IN_PROGRESS", "COMPLETED"}
ListEndpoints == {"upcoming", "recent"}

HomeTeamOf(m) == IF m = "m1" THEN DEADLY_SINS_TEAM_ID ELSE "tA"
AwayTeamOf(m) == IF m = "m1" THEN "tA" ELSE "tB"
CompetitionOf(m) == IF m = "m1" THEN Some("c1") ELSE Null
ConferenceOf(m) == IF m = "m1" THEN Some("f1") ELSE Null
LeagueOf(m) == IF m = "m1" THEN Some("l1") ELSE Null
HomeScoreOf(m) == IF m = "m1" THEN 3 ELSE 1
AwayScoreOf(m) == IF m = "m1" THEN 2 ELSE 1
SimVersionOf(m) == "v2"

\* `replay:${matchId}`
replayEndpoint(m) == IF m = "m1" THEN "replay:m1" ELSE "replay:m2"
Endpoints == ListEndpoints \cup {replayEndpoint(m) : m \in Matches}

\* ApiPlayerStats
PlayerStats(playerId, shots, goals, tackles, fouls) ==
  [playerId |-> playerId, shots |-> shots, goals |-> goals,
   tackles |-> tackles, fouls |-> fouls]

\* ApiGameEvent; an energy mapping is the sequence of its entries in insertion
\* order (Object.entries).
GameEvent(turn, type, initialEnergy, turnEnergy) ==
  [turn |-> turn, type |-> type,
   context |-> [initialEnergy |-> initialEnergy, turnEnergy |-> turnEnergy]]

\* The detail payload the upstream serves unless said otherwise: one player per
\* side, a match start and one turn update.
DefaultPayload ==
  [home |-> << PlayerStats("p1", 10, 3, 4, 1) >>,
   away |-> << PlayerStats("p2", 0, 0, 0, 0) >>,
   events |-> << GameEvent(0, "MATCH_START",
                           Some(<< <<"p1", 100>>, <<"p2", 100>> >>), Null),
                 GameEvent(1, "TURN_UPDATE", Null, Some(<< <<"p1", 25>> >>)) >>]

ApiPlayerStats(m, side) == IF side = "home" THEN payload.home ELSE payload.away
ApiGameEvents(m) == payload.events

\* ApiReplayData
ApiReplayData(m) ==
  [match |-> [id |-> m, homeTeam |-> HomeTeamOf(m), awayTeam |-> AwayTeamOf(m),
              homeScore |-> HomeScoreOf(m), awayScore |-> AwayScoreOf(m),
              simVersion |-> SimVersionOf(m)],
   playerStats |-> [home |-> ApiPlayerStats(m, "home"), away |-> ApiPlayerStats(m, "away")],
   events |-> ApiGameEvents(m)]

(***************************************************************************)
(* Upstream API (environment).  A Last-Modified token names the endpoint   *)
(* that issued it and the time of the modification it stands for; the      *)
(* upstream compares times only, as If-Modified-Since does.                *)
(***************************************************************************)
MAX_RETRIES == 3
PAGE_LIMIT == 100

Min(a, b) == IF a < b THEN a ELSE b

IsReplayEndpoint(e) == e \notin ListEndpoints
MatchOfEndpoint(e) == CHOOSE m \in Matches : replayEndpoint(m) = e

\* ApiMatch as the list endpoints return it.
ApiMatch(m) ==
  [id |-> m, status |-> upStatus[m],
   homeScore |-> IF upStatus[m] = "COMPLETED" THEN Some(HomeScoreOf(m)) ELSE Null,
   awayScore |-> IF upStatus[m] = "COMPLETED" THEN Some(AwayScoreOf(m)) ELSE Null,
   homeTeam |-> HomeTeamOf(m), awayTeam |-> AwayTeamOf(m),
   competition |-> CompetitionOf(m), conference |-> ConferenceOf(m),
   league |-> LeagueOf(m)]

\* "upcoming" lists the matches that have not started, "recent" the matches
\* that have started or ended.
InFeed(e, st) == IF e = "upcoming" THEN st = "SCHEDULED" ELSE st # "SCHEDULED"

FeedOf(e, status) ==
  LET ids == SelectSeq(MatchOrder, LAMBDA m : InFeed(e, status[m]))
  IN  [k \in 1..Len(ids) |-> [id |-> ids[k], status |-> status[ids[k]]]]

FeedList(e) ==
  LET ids == SelectSeq(MatchOrder, LAMBDA m : InFeed(e, upStatus[m]))
  IN  [k \in 1..Len(ids) |-> ApiMatch(ids[k])]

\* Time of the last modification of the resource behind an endpoint.
LastModifiedTime(e) == IF IsReplayEndpoint(e) THEN 0 ELSE upVersion[e]
LastModifiedToken(e) == [ep |-> e, t |-> LastModifiedTime(e)]

ResourceExists(e) ==
  IsReplayEndpoint(e) => upStatus[MatchOfEndpoint(e)] = "COMPLETED"

\* ApiMatchListResponse for one page, or ApiReplayData.
ResponseBody(e, offset) ==
  IF IsReplayEndpoint(e)
  THEN ApiReplayData(MatchOfEndpoint(e))
  ELSE LET all == FeedList(e)
       IN  [matches |-> SubSeq(all, offset + 1, Min(offset + PAGE_LIMIT, Len(all))),
            hasMore |-> offset + PAGE_LIMIT < Len(all)]

\* What the environment does to one request: kind is "none" (answered from
\* the upstream data), "page" (answered with the given page of records),
\* "304" (answered "unchanged"), "429" (throttled), "500" (application error)
\* or "network" (fetch rejects); the response carries the Retry-After and
\* X-RateLimit headers that are not Null.
Answer(kind, retryAfter, remaining, reset, page, more) ==
  [kind |-> kind, retryAfter |-> retryAfter, remaining |-> remaining,
   reset |-> reset, page |-> page, more |-> more]
Plain(kind) == Answer(kind, Null, Null, Null, <<>>, FALSE)

\* The response to one request.
UpstreamResponse(e, ifModifiedSince, offset, answer) ==
  LET kind == answer.kind
      head == [retryAfter |-> answer.retryAfter, remaining |-> answer.remaining,
               reset |-> answer.reset]
      Reply(status, lastModified, body) ==
        [status |-> status, lastModified |-> lastModified, body |-> body] @@ head
  IN  IF kind = "network"
      THEN Reply(0, Null, Null)
      ELSE IF kind = "429"
      THEN Reply(429, Null, Null)
      ELSE IF kind = "500"
      THEN Reply(500, Null, Null)
      ELSE IF kind = "304"
      THEN Reply(304, Some(LastModifiedToken(e)), Null)
      ELSE IF kind = "page"
      THEN Reply(200, Some(LastModifiedToken(e)),
                 Some([matches |-> [k \in 1..Len(answer.page) |-> ApiMatch(answer.page[k])],
                       hasMore |-> answer.more]))
      ELSE IF ~ResourceExists(e)
      THEN Reply(404, Null, Null)
      ELSE IF ~IsNull(ifModifiedSince) /\ Val(ifModifiedSince).t >= LastModifiedTime(e)
      THEN Reply(304, Some(LastModifiedToken(e)), Null)
      ELSE Reply(200, Some(LastModifiedToken(e)), Some(ResponseBody(e, offset)))

\* What the environment does to the successive requests of one client call;
\* requests beyond the script are answered from the upstream data.
Scripts ==
  { <<Plain("none")>>, <<Plain("500")>>, <<Plain("network")>>,
    <<Plain("429"), Plain("429"), Plain("429"), Plain("429")>> }
NoFault == <<Plain("none")>>

(***************************************************************************)
(* API client (client.ts).  A call carries along what it has done so far:  *)
(* the requests sent, the waits slept and the rate limit state.            *)
(***************************************************************************)
RATE_LIMIT_REMAINING == 100
RATE_LIMIT_RESET == 0
LOW_REMAINING == 10
DEFAULT_RETRY_AFTER == 60
BACKOFF_MS == 5000

\* getRateLimitStatus; resetsAt is the reset time in milliseconds
getRateLimitStatus ==
  [remaining |-> rateLimit.remaining,
   resetsAt |-> rateLimit.reset * 1000,
   isLow |-> rateLimit.remaining < LOW_REMAINING]

\* a call starts with the rate limit state of the module
Fresh == [sent |-> <<>>, waits |-> <<>>, rate |-> rateLimit]

\* Variant: the headers are read from successful responses only.
updateRateLimitWhenOk(rate, response) ==
  IF response.status # 200
  THEN rate
  ELSE [remaining |-> IF IsNull(response.remaining) THEN rate.remaining
                      ELSE Val(response.remaining),
        reset |-> IF IsNull(response.reset) THEN rate.reset ELSE Val(response.reset)]

\* lines 84-87: each header that is present replaces its part of the state
updateRateLimit(rate, response) ==
  [remaining |-> IF IsNull(response.remaining) THEN rate.remaining
                 ELSE Val(response.remaining),
   reset |-> IF IsNull(response.reset) THEN rate.reset ELSE Val(response.reset)]

\* Variant: the retry limit is tested after one more retry.
retriesExhaustedLate(retryCount) == retryCount > MAX_RETRIES

\* line 98
retriesExhausted(retryCount) == retryCount >= MAX_RETRIES

\* Variant: the wait is the exponential backoff alone.
waitMsUncapped(retryAfter, retryCount) == (2 ^ retryCount) * BACKOFF_MS

\* lines 99-100
waitMs(retryAfter, retryCount) ==
  LET seconds == IF IsNull(retryAfter) THEN DEFAULT_RETRY_AFTER ELSE Val(retryAfter)
  IN  Min(seconds * 1000, (2 ^ retryCount) * BACKOFF_MS)

\* Variant: application errors are retried like throttling responses.
isThrottledOrError(status) == status >= 429

\* line 97
isThrottled(status) == status = 429

Throw(error, acc) ==
  [throw |-> TRUE, error |-> error, data |-> Null, notModified |-> FALSE,
   lastModified |-> Null, requests |-> Len(acc.sent)] @@ acc

RECURSIVE apiFetch(_, _, _, _, _, _)

\* lines 89-112: the response has arrived and its rate limit headers are read
answered(e, offset, ifModifiedSince, retryCount, acc, response) ==
  IF response.status = 304
  THEN [throw |-> FALSE, error |-> "", data |-> Null, notModified |-> TRUE,
        lastModified |-> response.lastModified, requests |-> Len(acc.sent)] @@ acc
  ELSE IF isThrottled(response.status)
  THEN IF retriesExhausted(retryCount)
       THEN Throw("rate_limit", acc)
       ELSE apiFetch(e, offset, ifModifiedSince, acc.rest, retryCount + 1,
                     [sent |-> acc.sent,
                      waits |-> Append(acc.waits, waitMs(response.retryAfter, retryCount)),
                      rate |-> acc.rate])
  ELSE IF response.status # 200
  THEN Throw("api_error", acc)
  ELSE [throw |-> FALSE, error |-> "", data |-> response.body, notModified |-> FALSE,
        lastModified |-> response.lastModified, requests |-> Len(acc.sent)] @@ acc

\* lines 71-87: fetch rejects, or resolves with a response
fetched(e, offset, ifModifiedSince, retryCount, acc, response) ==
  IF response.status = 0
  THEN Throw("network", acc)
  ELSE answered(e, offset, ifModifiedSince, retryCount,
                [acc EXCEPT !.rate = updateRateLimit(acc.rate, response)], response)

apiFetch(e, offset, ifModifiedSince, script, retryCount, acc) ==
  IF ~env.SHOCKBALL_API_KEY
  THEN Throw("config", acc @@ [rest |-> script])
  ELSE fetched(e, offset, ifModifiedSince, retryCount,
               [sent |-> Append(acc.sent, [offset |-> offset,
                                           ifModifiedSince |-> ifModifiedSince]),
                waits |-> acc.waits, rate |-> acc.rate,
                rest |-> IF script = <<>> THEN <<>> ELSE Tail(script)],
               UpstreamResponse(e, ifModifiedSince, offset,
                                IF script = <<>> THEN Plain("none") ELSE Head(script)))

\* Variant: the token is sent with every page request.
pageTokenAlways(offset, ifModifiedSince) == ifModifiedSince

\* line 138: ifModifiedSince: offset === 0 ? ifModifiedSince : undefined
pageToken(offset, ifModifiedSince) == IF offset = 0 THEN ifModifiedSince ELSE Null

\* what a call of fetchAllPages has done when it ends
pagesDone(result) ==
  [sent |-> result.sent, waits |-> result.waits, rate |-> result.rate,
   requests |-> result.requests]

RECURSIVE fetchAllPages(_, _, _, _, _, _, _)

\* lines 141-151: one page request has returned result
fetchedPage(endpoint, ifModifiedSince, offset, allMatches, lastModified, result) ==
  IF result.throw
  THEN [throw |-> TRUE, error |-> result.error, matches |-> <<>>,
        lastModified |-> Null, notModified |-> FALSE] @@ pagesDone(result)
  ELSE IF result.notModified
  THEN [throw |-> FALSE, error |-> "", matches |-> <<>>,
        lastModified |-> result.lastModified, notModified |-> TRUE] @@ pagesDone(result)
  ELSE IF IsNull(result.data)
  THEN [throw |-> FALSE, error |-> "", matches |-> allMatches,
        lastModified |-> lastModified, notModified |-> FALSE] @@ pagesDone(result)
  ELSE IF ~Val(result.data).hasMore
  THEN [throw |-> FALSE, error |-> "",
        matches |-> allMatches \o Val(result.data).matches,
        lastModified |-> IF offset = 0 THEN result.lastModified ELSE lastModified,
        notModified |-> FALSE] @@ pagesDone(result)
  ELSE fetchAllPages(endpoint, ifModifiedSince, result.rest, offset + PAGE_LIMIT,
                     allMatches \o Val(result.data).matches,
                     IF offset = 0 THEN result.lastModified ELSE lastModified,
                     [sent |-> result.sent, waits |-> result.waits, rate |-> result.rate])

fetchAllPages(endpoint, ifModifiedSince, script, offset, allMatches, lastModified, acc) ==
  fetchedPage(endpoint, ifModifiedSince, offset, allMatches, lastModified,
              apiFetch(endpoint, offset, pageToken(offset, ifModifiedSince), script, 0, acc))

getUpcomingMatches(ifModifiedSince, script) ==
  fetchAllPages("upcoming", ifModifiedSince, script, 0, <<>>, Null, Fresh)

getRecentMatches(ifModifiedSince, script) ==
  fetchAllPages("recent", ifModifiedSince, script, 0, <<>>, Null, Fresh)

\* Variant: the detail request leaves the If-Modified-Since header out.
getMatchReplayUnconditional(matchId, ifModifiedSince, script) ==
  apiFetch(replayEndpoint(matchId), 0, Null, script, 0, Fresh)

getMatchReplay(matchId, ifModifiedSince, script) ==
  apiFetch(replayEndpoint(matchId), 0, ifModifiedSince, script, 0, Fresh)

InvolvesDeadlySins(m) ==
  m.homeTeam = DEADLY_SINS_TEAM_ID \/ m.awayTeam = DEADLY_SINS_TEAM_ID

filterDeadlySinsMatches(ms) == SelectSeq(ms, InvolvesDeadlySins)

(***************************************************************************)
(* Datastore (schema of migration 001_initial_schema) and the helpers of   *)
(* the sync worker that write to it.                                       *)
(***************************************************************************)
BATCH_SIZE == 500
LAST_SYNCS_LIMIT == 2
ENERGY_MIN == 0
ENERGY_MAX == 100

\* process.env credentials read by createServerClient
createServerClientThrows ==
  ~env.NEXT_PUBLIC_SUPABASE_URL \/ ~env.SUPABASE_SERVICE_ROLE_KEY

\* Variant: matches_new is filled from matchesFound.
logSyncNewFromFound(endpoint, httpStatus, lastModified, matchesFound, matchesNew, error) ==
  [endpoint |-> endpoint,
   http_status |-> httpStatus,
   last_modified |-> lastModified,
   matches_found |-> IF IsNull(matchesFound) THEN 0 ELSE Val(matchesFound),
   matches_new |-> IF IsNull(matchesFound) THEN 0 ELSE Val(matchesFound),
   error |-> error]

\* The row logSync inserts; absent counts default to 0, absent texts to null.
logSync(endpoint, httpStatus, lastModified, matchesFound, matchesNew, error) ==
  [endpoint |-> endpoint,
   http_status |-> httpStatus,
   last_modified |-> lastModified,
   matches_found |-> IF IsNull(matchesFound) THEN 0 ELSE Val(matchesFound),
   matches_new |-> IF IsNull(matchesNew) THEN 0 ELSE Val(matchesNew),
   error |-> error]

\* syncMatches: the rows of the token query, newest first.
lastSyncs(log) ==
  Take(Reverse(SelectSeq(log, LAMBDA r : r.endpoint \in {"upcoming", "recent"}
                                          /\ r.http_status = 200)),
       LAST_SYNCS_LIMIT)

\* Variant: the newest row gives the token of every list endpoint.
lastModifiedMapOfNewest(rows, map) ==
  IF rows = <<>>
  THEN map
  ELSE [e \in DOMAIN map |-> rows[1].last_modified]

\* syncMatches: the loop that fills lastModifiedMap from the rows.
RECURSIVE lastModifiedMap(_, _)
lastModifiedMap(rows, map) ==
  IF rows = <<>>
  THEN map
  ELSE LET row == Head(rows)
       IN  lastModifiedMap(Tail(rows),
             IF IsNull(map[row.endpoint])
             THEN [map EXCEPT ![row.endpoint] = row.last_modified]
             ELSE map)

EmptyMap == [e \in ListEndpoints |-> Null]

\* Variant: the token query selects the "unchanged" entries (status 304).
lastSyncOfUnchanged(log, matchId) ==
  LET rows == SelectSeq(log, LAMBDA r : r.endpoint = replayEndpoint(matchId)
                                        /\ r.http_status = 304)
  IN  IF rows = <<>> THEN Null ELSE rows[Len(rows)].last_modified

\* syncMatchReplay: the token of the newest successful entry of the match.
lastSync(log, matchId) ==
  LET rows == SelectSeq(log, LAMBDA r : r.endpoint = replayEndpoint(matchId)
                                        /\ r.http_status = 200)
  IN  IF rows = <<>> THEN Null ELSE rows[Len(rows)].last_modified

\* Foreign keys of a matches row.
MatchForeignKeysHold(row) ==
  /\ row.home_team_id \in teams
  /\ row.away_team_id \in teams
  /\ IsNull(row.competition_id) \/ Val(row.competition_id) \in competitions
  /\ IsNull(row.conference_id) \/ Val(row.conference_id) \in conferences
  /\ IsNull(row.league_id) \/ Val(row.league_id) \in leagues

\* upsertMatch: the row written to matches; on conflict the columns the
\* statement does not name (sim_version, replay_fetched) keep their value.
upsertMatchRow(match, existing) ==
  [status |-> match.status,
   home_team_id |-> match.homeTeam,
   away_team_id |-> match.awayTeam,
   home_score |-> match.homeScore,
   away_score |-> match.awayScore,
   competition_id |-> match.competition,
   conference_id |-> match.conference,
   league_id |-> match.league,
   involves_deadly_sins |-> InvolvesDeadlySins(match),
   sim_version |-> IF IsNull(existing) THEN Null ELSE Val(existing).sim_version,
   replay_fetched |-> IF IsNull(existing) THEN FALSE ELSE Val(existing).replay_fetched]

\* persistReplayData: the update of the matches row.
replayMatchUpdate(row, data) ==
  [row EXCEPT !.sim_version = Some(data.match.simVersion),
              !.home_score = Some(data.match.homeScore),
              !.away_score = Some(data.match.awayScore),
              !.status = "COMPLETED",
              !.replay_fetched = TRUE]

\* numeric(5,4): a rate in ten-thousandths, rounded half up.
Numeric54(num, den) == (2 * 10000 * num + den) \div (2 * den)

\* Variant: a player without goals or without fouls has no rate.
statsRowOfScorers(matchId, teamId, isHome, ps) ==
  [match_id |-> matchId, player_id |-> ps.playerId, team_id |-> teamId,
   is_home_team |-> isHome, shots |-> ps.shots, goals |-> ps.goals,
   tackles |-> ps.tackles, fouls |-> ps.fouls,
   shot_conversion_rate |-> IF ps.shots > 0 /\ ps.goals > 0
                            THEN Some(Numeric54(ps.goals, ps.shots)) ELSE Null,
   foul_rate |-> IF ps.tackles > 0 /\ ps.fouls > 0
                 THEN Some(Numeric54(ps.fouls, ps.tackles)) ELSE Null]

\* persistReplayData: one player_match_stats row.
statsRow(matchId, teamId, isHome, ps) ==
  [match_id |-> matchId, player_id |-> ps.playerId, team_id |-> teamId,
   is_home_team |-> isHome, shots |-> ps.shots, goals |-> ps.goals,
   tackles |-> ps.tackles, fouls |-> ps.fouls,
   shot_conversion_rate |-> IF ps.shots > 0 THEN Some(Numeric54(ps.goals, ps.shots)) ELSE Null,
   foul_rate |-> IF ps.tackles > 0 THEN Some(Numeric54(ps.fouls, ps.tackles)) ELSE Null]

statsRows(matchId, data) ==
  [k \in 1..Len(data.playerStats.home) |->
      statsRow(matchId, data.match.homeTeam, TRUE, data.playerStats.home[k])]
  \o
  [k \in 1..Len(data.playerStats.away) |->
      statsRow(matchId, data.match.awayTeam, FALSE, data.playerStats.away[k])]

eventRows(matchId, data) ==
  [k \in 1..Len(data.events) |->
      [match_id |-> matchId, turn |-> data.events[k].turn, type |-> data.events[k].type]]

\* Variant: entries whose energy is outside 0..100 are left out.
energyEntriesValidated(matchId, turn, mapping) ==
  IF IsNull(mapping)
  THEN <<>>
  ELSE SelectSeq([k \in 1..Len(Val(mapping)) |->
                    [match_id |-> matchId, player_id |-> Val(mapping)[k][1],
                     turn |-> turn, energy |-> Val(mapping)[k][2]]],
                 LAMBDA r : r.energy >= 0 /\ r.energy <= 100)

\* extractEnergySnapshots: the tuples pushed for one mapping (lines 128-139)
energyEntries(matchId, turn, mapping) ==
  IF IsNull(mapping)
  THEN <<>>
  ELSE [k \in 1..Len(Val(mapping)) |->
          [match_id |-> matchId, player_id |-> Val(mapping)[k][1],
           turn |-> turn, energy |-> Val(mapping)[k][2]]]

\* The loop over the events: the snapshots of one event are those of its
\* initialEnergy, then those of its turnEnergy; the snapshots of a longer list
\* are those of its front part followed by those of its back part.
RECURSIVE extractEnergySnapshots(_, _)
extractEnergySnapshots(matchId, events) ==
  IF events = <<>>
  THEN <<>>
  ELSE IF Len(events) = 1
  THEN energyEntries(matchId, 0, events[1].context.initialEnergy)
       \o energyEntries(matchId, events[1].turn, events[1].context.turnEnergy)
  ELSE extractEnergySnapshots(matchId, SubSeq(events, 1, Len(events) \div 2))
       \o extractEnergySnapshots(matchId,
                                 SubSeq(events, Len(events) \div 2 + 1, Len(events)))

Range(s) == {s[k] : k \in 1..Len(s)}
\* Variant: a batch runs to the end of the rows.
batchOfWhole(rows, i) == SubSeq(rows, i + 1, Len(rows))

\* rows.slice(i, i + 500)
batchOf(rows, i) == SubSeq(rows, i + 1, Min(i + BATCH_SIZE, Len(rows)))

\* The unique constraints the schema declares, by table.
HasUniqueConstraint(table) ==
  table \in {"player_match_stats", "energy_snapshots"}

\* upsert(..., { onConflict: 'match_id,player_id' }) into player_match_stats
statsUpsert(table, batch) ==
  {r \in table : \A n \in Range(batch) :
       ~(n.match_id = r.match_id /\ n.player_id = r.player_id)}
  \cup Range(batch)

\* the statement fails on a missing constraint, a foreign key or a rate that
\* numeric(5,4) cannot hold (10 or more)
statsUpsertFails(batch) ==
  \/ ~HasUniqueConstraint("player_match_stats")
  \/ \E n \in Range(batch) : IsNull(matches[n.match_id]) \/ n.team_id \notin teams
  \/ \E n \in Range(batch) :
       \/ ~IsNull(n.shot_conversion_rate) /\ Val(n.shot_conversion_rate) >= 100000
       \/ ~IsNull(n.foul_rate) /\ Val(n.foul_rate) >= 100000

\* upsert(..., { onConflict: 'match_id,turn,type', ignoreDuplicates: true }):
\* a row whose key is already present, in the table or earlier in the batch,
\* is skipped.
eventsUpsert(table, batch) ==
  LET same(n, r) == n.match_id = r.match_id /\ n.turn = r.turn /\ n.type = r.type
  IN  table \cup
        {batch[k] : k \in {k \in 1..Len(batch) :
                             /\ ~\E r \in table : same(batch[k], r)
                             /\ ~\E j \in 1..(k - 1) : same(batch[k], batch[j])}}

eventsUpsertFails(batch) ==
  \/ ~HasUniqueConstraint("match_events")
  \/ \E n \in Range(batch) : IsNull(matches[n.match_id])

\* upsert(..., { onConflict: 'match_id,player_id,turn', ignoreDuplicates: true })
energyUpsert(table, batch) ==
  LET same(n, r) ==
        n.match_id = r.match_id /\ n.player_id = r.player_id /\ n.turn = r.turn
  IN  table \cup
        {batch[k] : k \in {k \in 1..Len(batch) :
                             /\ ~\E r \in table : same(batch[k], r)
                             /\ ~\E j \in 1..(k - 1) : same(batch[k], batch[j])}}

\* Variant: the table has no check constraint on energy.
energyUpsertFailsUnchecked(batch) ==
  \/ ~HasUniqueConstraint("energy_snapshots")
  \/ \E n \in Range(batch) : IsNull(matches[n.match_id])

\* the statement fails on a missing constraint, a foreign key or the check
\* (energy >= 0 and energy <= 100)
energyUpsertFails(batch) ==
  \/ ~HasUniqueConstraint("energy_snapshots")
  \/ \E n \in Range(batch) :
       \/ IsNull(matches[n.match_id])
       \/ n.energy < ENERGY_MIN
       \/ n.energy > ENERGY_MAX

\* energy_snapshots.penalty_tier, generated always as ... stored
penalty_tier(energy) ==
  CASE energy >= 30 -> "none"
    [] energy >= 10 -> "moderate"
    [] OTHER -> "severe"

\* energy_snapshots.penalty_magnitude, numeric(6,2) generated always as ...
\* stored; in hundredths
penalty_magnitude(energy) ==
  CASE energy >= 30 -> 0
    [] energy >= 10 -> (30 - energy) * 50
    [] OTHER -> (10 - energy) * 150 + 1000

(***************************************************************************)
(* Invocations.  Procs are the callers; inv[p] holds the locals of the     *)
(* invocation p is running and the position it has reached.                *)
(***************************************************************************)
Procs == {"p1", "p2"}

NoResp == [throw |-> FALSE, error |-> "", matches |-> <<>>,
           lastModified |-> Null, notModified |-> FALSE]
NoReplay == [throw |-> FALSE, error |-> "", data |-> Null, notModified |-> FALSE,
             lastModified |-> Null, requests |-> 0]
NoResults == [upcoming |-> 0, recent |-> 0, replaysQueued |-> 0, errors |-> 0]
NoRet == [success |-> FALSE, notModified |-> FALSE]

NoIds == [e \in ListEndpoints |-> <<>>]
Ids(ms) == [k \in 1..Len(ms) |-> ms[k].id]

IdleInv ==
  [op |-> "idle", pc |-> "idle",
   lastModifiedMap |-> EmptyMap,   \* syncMatches: lastModifiedMap
   resp |-> NoResp,                \* syncMatches: result of the list fetch
   phase |-> "",                   \* syncMatches: "upcoming" or "recent"
   list |-> <<>>,                  \* syncMatches: the list the loop runs over
   i |-> 0,                        \* syncMatches: index of the running loop
   batch |-> 0,                    \* persistReplayData: offset of the running batch
   results |-> NoResults,          \* syncMatches: results
   nested |-> FALSE,               \* syncMatchReplay called by syncMatches
   matchId |-> "",                 \* syncMatchReplay: matchId
   lastSync |-> Null,              \* syncMatchReplay: lastSync?.last_modified
   replay |-> NoReplay,            \* syncMatchReplay: result of getMatchReplay
   ret |-> NoRet,                  \* syncMatchReplay: return value
   \* history of the invocation
   logStart |-> 0,                 \* length of sync_log when it started
   logAtStart |-> <<>>,            \* sync_log when it started
   upErrors |-> 0,                 \* upstream calls of the invocation that failed
   polled |-> NoIds,               \* the matches each poll returned
   upserted |-> NoIds,             \* ids upsertMatch has returned for, per poll
   seen |-> <<>>,                  \* replay loop: matches checked, with the stored flag
   auditFailed |-> {},             \* endpoints whose audit insert failed
   refsOk |-> TRUE,                \* upsertMatch: no write of the running call failed
   writes |-> <<>>,                \* persistReplayData: the writes attempted
   trace |-> <<>>]                 \* the steps taken, repeats dropped

\* process.env: everything configured, or one variable missing
EnvVars == {"SHOCKBALL_API_KEY", "NEXT_PUBLIC_SUPABASE_URL", "SUPABASE_SERVICE_ROLE_KEY"}
EnvConfigs ==
  {[v \in EnvVars |-> TRUE]} \cup {[v \in EnvVars |-> v # missing] : missing \in EnvVars}

NoCall == [op |-> "none"]
NoLast == [op |-> "none", matchId |-> "", ret |-> NoRet, store |-> <<>>]

NoRequest ==
  [n |-> 0, trigger |-> "", authorization |-> Null, checked |-> FALSE,
   op |-> "", matchId |-> "", status |-> 0]

\* everything but process.env, before any operation
Started ==
  /\ upStatus \in {st \in [Matches -> MatchStatus] : st["m2"] = "SCHEDULED"}
  /\ upVersion = [e \in ListEndpoints |-> 0]
  /\ clock = 0
  /\ payload = DefaultPayload
  /\ teams = {DEADLY_SINS_TEAM_ID}
  /\ competitions = {}
  /\ conferences = {}
  /\ leagues = {}
  /\ matches = [m \in Matches |-> Null]
  /\ player_match_stats = {}
  /\ match_events = {}
  /\ energy_snapshots = {}
  /\ sync_log = <<>>
  /\ inv = [p \in Procs |-> IdleInv]
  /\ calls = 0
  /\ faults = 0
  /\ downloads = [m \in Matches |-> 0]
  /\ last = NoLast
  /\ terminated = 0
  /\ rateLimit = [remaining |-> RATE_LIMIT_REMAINING, reset |-> RATE_LIMIT_RESET]
  /\ client = NoCall
  /\ request = NoRequest
  /\ issued = {}

Init == env \in EnvConfigs /\ Started

\* A public operation may start while the bound on calls allows it.
MayCall == calls + faults < MaxCalls
\* A transient failure may be injected while the bounds allow it.
MayFail == faults < MaxFaults /\ calls + faults < MaxCalls
\* A write to the datastore succeeds or fails.
WriteOutcomes == IF MayFail THEN {TRUE, FALSE} ELSE {TRUE}
\* An upstream call is answered or disturbed.
CallScripts == IF MayFail /\ env.SHOCKBALL_API_KEY THEN Scripts ELSE {NoFault}

\* history: the audit insert for an endpoint went through or failed
Audit(f, endpoint, ok) ==
  IF ok THEN f ELSE [f EXCEPT !.auditFailed = @ \cup {endpoint}]

\* history: a client call for an endpoint has returned r; a 200 response hands
\* over the token it carries
Issued(endpoint, r) ==
  IF r.throw \/ r.notModified \/ IsNull(r.lastModified)
  THEN issued
  ELSE issued \cup {<<endpoint, Val(r.lastModified)>>}

Mark(tr, ev) == IF tr # <<>> /\ tr[Len(tr)] = ev THEN tr ELSE Append(tr, ev)

(***************************************************************************)
(* syncMatches (sync.ts 278-368).                                          *)
(***************************************************************************)
IsCompleted(m) == m.status = "COMPLETED"

\* return results (line 367)
finishSync(f) == [f EXCEPT !.pc = "done"]

\* results.recent += matches.length (line 359), then return
finishRecent(f) ==
  finishSync([f EXCEPT !.results.recent = @ + Len(f.resp.matches)])

\* the replay loop moves to its next match (lines 346-357)
afterCheck(f) ==
  IF f.i < Len(f.list)
  THEN [f EXCEPT !.i = @ + 1, !.pc = "check_replay"]
  ELSE finishRecent(f)

\* Variant: the replay loop runs over every match of the tracked team.
startScanAnyStatus(f) ==
  LET dsMatches == filterDeadlySinsMatches(f.resp.matches)
  IN  IF dsMatches = <<>>
      THEN finishRecent(f)
      ELSE [f EXCEPT !.list = dsMatches, !.i = 1, !.pc = "check_replay"]

\* lines 341-346: the completed matches of the tracked team are queued
startScan(f) ==
  LET dsMatches == SelectSeq(filterDeadlySinsMatches(f.resp.matches), IsCompleted)
  IN  IF dsMatches = <<>>
      THEN finishRecent(f)
      ELSE [f EXCEPT !.list = dsMatches, !.i = 1, !.pc = "check_replay"]

\* Variant: the "upcoming" loop runs over the unfiltered response too.
upsertListUnfiltered(phase, ms) == ms

\* the list an endpoint's upsert loop runs over (lines 311-312, 337)
upsertList(phase, ms) ==
  IF phase = "upcoming" THEN filterDeadlySinsMatches(ms) ELSE ms

\* an upsert loop has ended
afterList(f) ==
  IF f.phase = "upcoming" THEN [f EXCEPT !.pc = "fetch_recent"] ELSE startScan(f)

\* Variant: the upsert loop ends after its first match.
afterMatchBreak(f) ==
  LET g == IF f.phase = "upcoming" THEN [f EXCEPT !.results.upcoming = @ + 1] ELSE f
  IN  afterList(g)

\* upsertMatch has returned for the match at index i (lines 313-314, 338)
afterMatch(f) ==
  LET g == IF f.phase = "upcoming" THEN [f EXCEPT !.results.upcoming = @ + 1] ELSE f
  IN  IF g.i < Len(g.list)
      THEN [g EXCEPT !.i = @ + 1, !.pc = "upsert_home"]
      ELSE afterList(g)

\* the poll was logged: run the endpoint's upsert loop unless unchanged
afterLog(f) ==
  LET ms == upsertList(f.phase, f.resp.matches)
  IN  IF f.resp.notModified
      THEN IF f.phase = "upcoming" THEN [f EXCEPT !.pc = "fetch_recent"] ELSE finishSync(f)
      ELSE IF ms = <<>>
      THEN afterList(f)
      ELSE [f EXCEPT !.list = ms, !.i = 1, !.pc = "upsert_home"]

\* upsertMatch: the write that follows the two team upserts (lines 63-94)
RefSteps == <<"upsert_competition", "upsert_conference", "upsert_league", "upsert_match">>
RefPresent(match, step) ==
  CASE step = "upsert_competition" -> ~IsNull(match.competition)
    [] step = "upsert_conference" -> ~IsNull(match.conference)
    [] step = "upsert_league" -> ~IsNull(match.league)
    [] OTHER -> TRUE
\* Variant: upsertMatch goes from the team upserts straight to the match row.
nextRefStepSkipping(match, from) == "upsert_match"

nextRefStep(match, from) ==
  LET k == CHOOSE j \in from..Len(RefSteps) :
             /\ RefPresent(match, RefSteps[j])
             /\ \A h \in from..(j - 1) : ~RefPresent(match, RefSteps[h])
  IN  RefSteps[k]

\* syncMatches is called: createServerClient, then the token query (279-296)
CallSyncMatches(p) ==
  /\ inv[p].op = "idle"
  /\ MayCall
  /\ calls' = calls + 1
  /\ inv' = [inv EXCEPT ![p] =
        IF createServerClientThrows
        THEN [IdleInv EXCEPT !.op = "syncMatches", !.pc = "thrown",
                             !.logStart = Len(sync_log),
                             !.logAtStart = sync_log]
        ELSE [IdleInv EXCEPT !.op = "syncMatches", !.pc = "fetch_upcoming",
                             !.lastModifiedMap = lastModifiedMap(lastSyncs(sync_log), EmptyMap),
                             !.logStart = Len(sync_log),
                             !.logAtStart = sync_log]]
  /\ last' = NoLast
  /\ UNCHANGED <<host, rateLimit, upstream, store, sync_log, faults, downloads>>

\* getUpcomingMatches / getRecentMatches (lines 300-302, 325-327)
FetchList(p, phase) ==
  /\ inv[p].pc = IF phase = "upcoming" THEN "fetch_upcoming" ELSE "fetch_recent"
  /\ \E script \in CallScripts :
       LET token == inv[p].lastModifiedMap[phase]
           r == IF phase = "upcoming"
                THEN getUpcomingMatches(token, script)
                ELSE getRecentMatches(token, script)
       IN  /\ faults' = IF script = NoFault THEN faults ELSE faults + 1
           /\ inv' = [inv EXCEPT ![p] =
                 [@ EXCEPT !.phase = phase, !.resp = r, !.list = <<>>, !.i = 0,
                           !.pc = IF r.throw THEN "catch_list" ELSE "log_list",
                           !.upErrors = IF r.throw THEN @ + 1 ELSE @,
                           !.polled[phase] = r.matches,
                           !.trace = Mark(@, <<"poll", phase>>)]]
           /\ rateLimit' = r.rate
           /\ issued' = Issued(phase, r)
  /\ UNCHANGED <<env, terminated, client, request, upstream, store, sync_log,
                 calls, downloads, last>>

FetchUpcoming(p) == FetchList(p, "upcoming")
FetchRecent(p) == FetchList(p, "recent")

\* logSync after an answered poll (lines 304-308, 329-333)
LogList(p) ==
  /\ inv[p].pc = "log_list"
  /\ \E ok \in WriteOutcomes :
       LET f == inv[p]
           row == logSync(f.phase, IF f.resp.notModified THEN 304 ELSE 200,
                          f.resp.lastModified, Some(Len(f.resp.matches)), Null, Null)
       IN  /\ sync_log' = IF ok THEN Append(sync_log, row) ELSE sync_log
           /\ faults' = IF ok THEN faults ELSE faults + 1
           /\ inv' = [inv EXCEPT ![p] = afterLog(Audit(f, f.phase, ok))]
  /\ UNCHANGED <<host, rateLimit, upstream, store, calls, downloads, last>>

\* Variant: the catch block counts the error and logs nothing.
CatchListNoLog(p) ==
  /\ inv[p].pc = "catch_list"
  /\ LET g == [inv[p] EXCEPT !.results.errors = @ + 1]
     IN  inv' = [inv EXCEPT ![p] =
           IF g.phase = "upcoming"
           THEN [g EXCEPT !.pc = "fetch_recent"]
           ELSE finishSync(g)]
  /\ UNCHANGED <<host, rateLimit, upstream, store, sync_log, calls, faults, downloads, last>>

\* the catch block of a poll (lines 317-321, 361-365)
CatchList(p) ==
  /\ inv[p].pc = "catch_list"
  /\ \E ok \in WriteOutcomes :
       LET f == inv[p]
           row == logSync(f.phase, 0, Null, Null, Null, Some(f.resp.error))
           g == [Audit(f, f.phase, ok) EXCEPT !.results.errors = @ + 1]
       IN  /\ sync_log' = IF ok THEN Append(sync_log, row) ELSE sync_log
           /\ faults' = IF ok THEN faults ELSE faults + 1
           /\ inv' = [inv EXCEPT ![p] =
                 IF f.phase = "upcoming"
                 THEN [g EXCEPT !.pc = "fetch_recent"]
                 ELSE finishSync(g)]
  /\ UNCHANGED <<host, rateLimit, upstream, store, calls, downloads, last>>

\* upsertTeam for the home or the away team of the match (lines 59-60)
UpsertTeam(p, side) ==
  /\ inv[p].pc = IF side = "home" THEN "upsert_home" ELSE "upsert_away"
  /\ \E ok \in WriteOutcomes :
       LET f == inv[p]
           match == f.list[f.i]
           id == IF side = "home" THEN match.homeTeam ELSE match.awayTeam
       IN  /\ teams' = IF ok THEN teams \cup {id} ELSE teams
           /\ faults' = IF ok THEN faults ELSE faults + 1
           /\ inv' = [inv EXCEPT ![p] =
                 [f EXCEPT !.pc = IF side = "home" THEN "upsert_away"
                                  ELSE nextRefStep(match, 1),
                           !.refsOk = @ /\ ok,
                           !.trace = Mark(@, <<"upsert", f.phase>>)]]
  /\ UNCHANGED <<host, rateLimit, upstream, competitions, conferences, leagues, matches,
                 player_match_stats, match_events, energy_snapshots,
                 sync_log, calls, downloads, last>>

UpsertHomeTeam(p) == UpsertTeam(p, "home")
UpsertAwayTeam(p) == UpsertTeam(p, "away")

\* the competition upsert of upsertMatch (lines 63-76)
UpsertCompetition(p) ==
  /\ inv[p].pc = "upsert_competition"
  /\ \E ok \in WriteOutcomes :
       LET f == inv[p]
           match == f.list[f.i]
       IN  /\ competitions' = IF ok THEN competitions \cup {Val(match.competition)}
                               ELSE competitions
           /\ faults' = IF ok THEN faults ELSE faults + 1
           /\ inv' = [inv EXCEPT ![p] = [f EXCEPT !.pc = nextRefStep(match, 2),
                                        !.refsOk = @ /\ ok]]
  /\ UNCHANGED <<host, rateLimit, upstream, teams, conferences, leagues, matches,
                 player_match_stats, match_events, energy_snapshots,
                 sync_log, calls, downloads, last>>

\* the conference upsert of upsertMatch (lines 78-84)
UpsertConference(p) ==
  /\ inv[p].pc = "upsert_conference"
  /\ \E ok \in WriteOutcomes :
       LET f == inv[p]
           match == f.list[f.i]
       IN  /\ conferences' = IF ok THEN conferences \cup {Val(match.conference)}
                              ELSE conferences
           /\ faults' = IF ok THEN faults ELSE faults + 1
           /\ inv' = [inv EXCEPT ![p] = [f EXCEPT !.pc = nextRefStep(match, 3),
                                        !.refsOk = @ /\ ok]]
  /\ UNCHANGED <<host, rateLimit, upstream, teams, competitions, leagues, matches,
                 player_match_stats, match_events, energy_snapshots,
                 sync_log, calls, downloads, last>>

\* the league upsert of upsertMatch (lines 86-92)
UpsertLeague(p) ==
  /\ inv[p].pc = "upsert_league"
  /\ \E ok \in WriteOutcomes :
       LET f == inv[p]
           match == f.list[f.i]
       IN  /\ leagues' = IF ok THEN leagues \cup {Val(match.league)} ELSE leagues
           /\ faults' = IF ok THEN faults ELSE faults + 1
           /\ inv' = [inv EXCEPT ![p] = [f EXCEPT !.pc = nextRefStep(match, 4),
                                        !.refsOk = @ /\ ok]]
  /\ UNCHANGED <<host, rateLimit, upstream, teams, competitions, conferences, matches,
                 player_match_stats, match_events, energy_snapshots,
                 sync_log, calls, downloads, last>>

\* the matches upsert of upsertMatch (lines 94-113) and the loop around it
UpsertMatchRow(p) ==
  /\ inv[p].pc = "upsert_match"
  /\ \E ok \in WriteOutcomes :
       LET f == inv[p]
           match == f.list[f.i]
           row == upsertMatchRow(match, matches[match.id])
       IN  /\ matches' = IF ok /\ MatchForeignKeysHold(row)
                          THEN [matches EXCEPT ![match.id] = Some(row)]
                          ELSE matches
           /\ faults' = IF ok THEN faults ELSE faults + 1
           /\ inv' = [inv EXCEPT ![p] =
                 afterMatch([f EXCEPT !.upserted[f.phase] = Append(@, match.id),
                                      !.refsOk = TRUE])]
  /\ UNCHANGED <<host, rateLimit, upstream, teams, competitions, conferences, leagues,
                 player_match_stats, match_events, energy_snapshots,
                 sync_log, calls, downloads, last>>

\* history: the flag the matches table holds for a match
ReplayFetched(id) == ~IsNull(matches[id]) /\ Val(matches[id]).replay_fetched

\* the replay_fetched query of the replay loop (lines 346-356)
CheckReplay(p) ==
  /\ inv[p].pc = "check_replay"
  /\ LET f == inv[p]
         match == f.list[f.i]
         existing == matches[match.id]
         g == [f EXCEPT !.seen = Append(@, [id |-> match.id,
                                            fetched |-> ReplayFetched(match.id)])]
     IN  inv' = [inv EXCEPT ![p] =
           IF IsNull(existing) \/ ~Val(existing).replay_fetched
           THEN [g EXCEPT !.results.replaysQueued = @ + 1,
                          !.nested = TRUE, !.matchId = match.id,
                          !.pc = "replay_lookup",
                          !.trace = Mark(@, <<"detail", match.id>>)]
           ELSE afterCheck(g)]
  /\ UNCHANGED <<host, rateLimit, upstream, store, sync_log, calls, faults, downloads, last>>

(***************************************************************************)
(* syncMatchReplay (sync.ts 374-412) and persistReplayData (149-243).      *)
(***************************************************************************)
\* syncMatchReplay returns: to the replay loop of syncMatches, which drops
\* the value (line 355), or to the caller
afterReplay(f, ret) ==
  IF f.nested
  THEN afterCheck([f EXCEPT !.nested = FALSE, !.ret = ret,
                            !.trace = Mark(@, <<"returned", f.matchId>>)])
  ELSE [f EXCEPT !.ret = ret, !.pc = "done"]

replayData(f) == Val(f.replay.data)

\* history: persistReplayData has sent a write of so many rows to a table, and
\* the datastore has answered it without or with an error
Wrote(f, table, rows, ok) ==
  [f EXCEPT !.writes = Append(@, [table |-> table, rows |-> rows, ok |-> ok])]

\* the step of persistReplayData that follows the stats upsert
afterStats(f) ==
  LET data == replayData(f)
  IN  IF Len(data.events) > 0
      THEN [f EXCEPT !.batch = 0, !.pc = "persist_events"]
      ELSE IF Len(extractEnergySnapshots(f.matchId, data.events)) > 0
      THEN [f EXCEPT !.batch = 0, !.pc = "persist_energy"]
      ELSE afterReplay(f, [success |-> TRUE, notModified |-> FALSE])

\* syncMatchReplay is called from outside: createServerClient, token query
CallSyncMatchReplay(p, m) ==
  /\ inv[p].op = "idle"
  /\ MayCall
  /\ calls' = calls + 1
  /\ inv' = [inv EXCEPT ![p] =
        IF createServerClientThrows
        THEN [IdleInv EXCEPT !.op = "syncMatchReplay", !.pc = "thrown",
                             !.matchId = m, !.logStart = Len(sync_log),
                             !.logAtStart = sync_log]
        ELSE [IdleInv EXCEPT !.op = "syncMatchReplay", !.pc = "replay_fetch",
                             !.matchId = m, !.lastSync = lastSync(sync_log, m),
                             !.logStart = Len(sync_log),
                             !.logAtStart = sync_log]]
  /\ last' = IF last.matchId = m THEN last ELSE NoLast
  /\ UNCHANGED <<host, rateLimit, upstream, store, sync_log, faults, downloads>>

\* syncMatchReplay called by syncMatches: the token query (lines 375-386)
ReplayLookup(p) ==
  /\ inv[p].pc = "replay_lookup"
  /\ inv' = [inv EXCEPT ![p] =
        [@ EXCEPT !.lastSync = lastSync(sync_log, inv[p].matchId),
                  !.pc = "replay_fetch"]]
  /\ UNCHANGED <<host, rateLimit, upstream, store, sync_log, calls, faults, downloads, last>>

\* getMatchReplay (lines 389-392)
ReplayFetch(p) ==
  /\ inv[p].pc = "replay_fetch"
  /\ \E script \in CallScripts :
       LET f == inv[p]
           r == getMatchReplay(f.matchId, f.lastSync, script)
       IN  /\ faults' = IF script = NoFault THEN faults ELSE faults + 1
           /\ downloads' = IF ~r.throw /\ ~r.notModified
                            THEN [downloads EXCEPT ![f.matchId] = @ + 1]
                            ELSE downloads
           /\ inv' = [inv EXCEPT ![p] =
                 [f EXCEPT !.replay = r,
                           !.pc = IF r.throw THEN "replay_catch" ELSE "replay_log",
                           !.upErrors = IF r.throw THEN @ + 1 ELSE @]]
           /\ rateLimit' = r.rate
           /\ issued' = Issued(replayEndpoint(f.matchId), r)
  /\ UNCHANGED <<env, terminated, client, request, upstream, store, sync_log,
                 calls, last>>

\* logSync after an answered detail request (lines 394-406)
ReplayLog(p) ==
  /\ inv[p].pc = "replay_log"
  /\ \E ok \in WriteOutcomes :
       LET f == inv[p]
           r == f.replay
           row == logSync(replayEndpoint(f.matchId),
                          IF r.notModified THEN 304 ELSE 200, r.lastModified,
                          Some(1), Some(IF r.notModified THEN 0 ELSE 1), Null)
       IN  /\ sync_log' = IF ok THEN Append(sync_log, row) ELSE sync_log
           /\ faults' = IF ok THEN faults ELSE faults + 1
           /\ inv' = [inv EXCEPT ![p] =
                 LET g == Audit(f, replayEndpoint(f.matchId), ok)
                 IN  IF ~r.notModified /\ ~IsNull(r.data)
                     THEN [g EXCEPT !.pc = "persist_match"]
                     ELSE afterReplay(g, [success |-> TRUE,
                                          notModified |-> r.notModified])]
  /\ UNCHANGED <<host, rateLimit, upstream, store, calls, downloads, last>>

\* the catch block of syncMatchReplay (lines 407-411)
ReplayCatch(p) ==
  /\ inv[p].pc = "replay_catch"
  /\ \E ok \in WriteOutcomes :
       LET f == inv[p]
           row == logSync(replayEndpoint(f.matchId), 0, Null, Null, Null,
                          Some(f.replay.error))
       IN  /\ sync_log' = IF ok THEN Append(sync_log, row) ELSE sync_log
           /\ faults' = IF ok THEN faults ELSE faults + 1
           /\ inv' = [inv EXCEPT ![p] =
                 afterReplay(Audit(f, replayEndpoint(f.matchId), ok),
                             [success |-> FALSE, notModified |-> FALSE])]
  /\ UNCHANGED <<host, rateLimit, upstream, store, calls, downloads, last>>

\* persistReplayData: the update of the matches row (lines 156-164)
PersistMatch(p) ==
  /\ inv[p].pc = "persist_match"
  /\ \E ok \in WriteOutcomes :
       LET f == inv[p]
           existing == matches[f.matchId]
       IN  /\ matches' = IF ok /\ ~IsNull(existing)
                          THEN [matches EXCEPT ![f.matchId] =
                                  Some(replayMatchUpdate(Val(existing), replayData(f)))]
                          ELSE matches
           /\ faults' = IF ok THEN faults ELSE faults + 1
           /\ inv' = [inv EXCEPT ![p] =
                 [Wrote(f, "matches", 1, ok)
                    EXCEPT !.pc = "persist_stats",
                           !.trace = Mark(@, <<"persist", f.matchId>>)]]
  /\ UNCHANGED <<host, rateLimit, upstream, teams, competitions, conferences, leagues,
                 player_match_stats, match_events, energy_snapshots,
                 sync_log, calls, downloads, last>>

\* persistReplayData: the player_match_stats upsert (lines 166-206)
PersistStats(p) ==
  /\ inv[p].pc = "persist_stats"
  /\ \E ok \in WriteOutcomes :
       LET f == inv[p]
           batch == statsRows(f.matchId, replayData(f))
       IN  /\ player_match_stats' =
                 IF ok /\ ~statsUpsertFails(batch)
                 THEN statsUpsert(player_match_stats, batch)
                 ELSE player_match_stats
           /\ faults' = IF ok THEN faults ELSE faults + 1
           /\ inv' = [inv EXCEPT ![p] =
                 afterStats(Wrote(f, "player_match_stats", Len(batch),
                                  ok /\ ~statsUpsertFails(batch)))]
  /\ UNCHANGED <<host, rateLimit, upstream, teams, competitions, conferences, leagues,
                 matches, match_events, energy_snapshots,
                 sync_log, calls, downloads, last>>

\* persistReplayData: one batch of match_events (lines 208-228)
PersistEvents(p) ==
  /\ inv[p].pc = "persist_events"
  /\ \E ok \in WriteOutcomes :
       LET f == inv[p]
           events == eventRows(f.matchId, replayData(f))
           batch == batchOf(events, f.batch)
           snapshots == extractEnergySnapshots(f.matchId, replayData(f).events)
       IN  /\ match_events' =
                 IF ok /\ ~eventsUpsertFails(batch)
                 THEN eventsUpsert(match_events, batch)
                 ELSE match_events
           /\ faults' = IF ok THEN faults ELSE faults + 1
           /\ inv' = [inv EXCEPT ![p] =
                 LET g == Wrote(f, "match_events", Len(batch),
                                ok /\ ~eventsUpsertFails(batch))
                 IN  IF f.batch + BATCH_SIZE < Len(events)
                     THEN [g EXCEPT !.batch = @ + BATCH_SIZE]
                     ELSE IF Len(snapshots) > 0
                     THEN [g EXCEPT !.batch = 0, !.pc = "persist_energy"]
                     ELSE afterReplay(g, [success |-> TRUE, notModified |-> FALSE])]
  /\ UNCHANGED <<host, rateLimit, upstream, teams, competitions, conferences, leagues,
                 matches, player_match_stats, energy_snapshots,
                 sync_log, calls, downloads, last>>

\* persistReplayData: one batch of energy_snapshots (lines 230-242)
PersistEnergy(p) ==
  /\ inv[p].pc = "persist_energy"
  /\ \E ok \in WriteOutcomes :
       LET f == inv[p]
           snapshots == extractEnergySnapshots(f.matchId, replayData(f).events)
           batch == batchOf(snapshots, f.batch)
       IN  /\ energy_snapshots' =
                 IF ok /\ ~energyUpsertFails(batch)
                 THEN energyUpsert(energy_snapshots, batch)
                 ELSE energy_snapshots
           /\ faults' = IF ok THEN faults ELSE faults + 1
           /\ inv' = [inv EXCEPT ![p] =
                 LET g == Wrote(f, "energy_snapshots", Len(batch),
                                ok /\ ~energyUpsertFails(batch))
                 IN  IF f.batch + BATCH_SIZE < Len(snapshots)
                     THEN [g EXCEPT !.batch = @ + BATCH_SIZE]
                     ELSE afterReplay(g, [success |-> TRUE, notModified |-> FALSE])]
  /\ UNCHANGED <<host, rateLimit, upstream, teams, competitions, conferences, leagues,
                 matches, player_match_stats, match_events,
                 sync_log, calls, downloads, last>>

\* the caller takes the return value (or the exception)
Return(p) ==
  /\ inv[p].pc \in {"done", "thrown"}
  /\ inv' = [inv EXCEPT ![p] = IdleInv]
  /\ last' = IF inv[p].op = "syncMatchReplay" /\ inv[p].pc = "done"
             THEN [op |-> inv[p].op, matchId |-> inv[p].matchId, ret |-> inv[p].ret,
                   store |-> store]
             ELSE NoLast
  /\ UNCHANGED <<host, rateLimit, upstream, store, sync_log, calls, faults, downloads>>

(***************************************************************************)
(* The upstream data changes: some matches move on in their lifecycle.  A  *)
(* list endpoint whose content changes is modified at that time.           *)
(***************************************************************************)
Rank(st) == CASE st = "SCHEDULED" -> 0 [] st = "IN_PROGRESS" -> 1 [] OTHER -> 2

\* The worker sees the upstream only through its requests: a change is taken
\* between invocations or right before a request that follows another request
\* of the same invocation.
Observable == \A p \in Procs : inv[p].pc \in {"idle", "fetch_recent"}

\* the upstream moves to the given statuses
Changed(status) ==
  /\ clock < MaxChanges
  /\ status # upStatus
  /\ \A m \in Matches : Rank(status[m]) >= Rank(upStatus[m])
  /\ clock' = clock + 1
  /\ upStatus' = status
  /\ payload' = payload
  /\ upVersion' = [e \in ListEndpoints |->
                     IF FeedOf(e, status) # FeedOf(e, upStatus)
                     THEN clock + 1 ELSE upVersion[e]]
  /\ last' = NoLast
  /\ UNCHANGED <<host, rateLimit, store, sync_log, inv, calls, faults, downloads>>

UpstreamChange(status) == Observable /\ Changed(status)

Caller == "p1"

Step(p) ==
  \/ CallSyncMatches(p)
  \/ FetchUpcoming(p)
  \/ FetchRecent(p)
  \/ LogList(p)
  \/ CatchList(p)
  \/ UpsertHomeTeam(p)
  \/ UpsertAwayTeam(p)
  \/ UpsertCompetition(p)
  \/ UpsertConference(p)
  \/ UpsertLeague(p)
  \/ UpsertMatchRow(p)
  \/ CheckReplay(p)
  \/ \E m \in Matches : CallSyncMatchReplay(p, m)
  \/ ReplayLookup(p)
  \/ ReplayFetch(p)
  \/ ReplayLog(p)
  \/ ReplayCatch(p)
  \/ PersistMatch(p)
  \/ PersistStats(p)
  \/ PersistEvents(p)
  \/ PersistEnergy(p)
  \/ Return(p)

Next ==
  \/ Step(Caller)
  \/ \E status \in [Matches -> MatchStatus] : UpstreamChange(status)

Spec == Init /\ [][Next]_vars

(***************************************************************************)
(* The host runs an invocation inside an execution budget (route.ts 15)    *)
(* and terminates it mid-flight when the budget is exceeded: the invocation*)
(* stops at the request it is waiting for and nothing after it runs.       *)
(***************************************************************************)
Suspended(p) == inv[p].op # "idle" /\ inv[p].pc \notin {"done", "thrown"}

Kill(p) ==
  /\ Suspended(p)
  /\ MayFail
  /\ faults' = faults + 1
  /\ terminated' = terminated + 1
  /\ inv' = [inv EXCEPT ![p] = IdleInv]
  /\ last' = NoLast
  /\ UNCHANGED <<env, client, request, issued, rateLimit, upstream, store, sync_log,
                 calls, downloads>>

\* invocations that may be terminated, against upstream data that stays the same
NextKill ==
  \/ Step(Caller)
  \/ Kill(Caller)

SpecKill == Init /\ [][NextKill]_vars

(***************************************************************************)
(* Two overlapping invocations: the route handler awaits syncMatches while *)
(* another request (a second cron run, a manual sync) starts an operation. *)
(* Nothing fails and the upstream data stays the same.                     *)
(***************************************************************************)
\* one step of an invocation of the pair: nothing fails; the second invocation
\* starts while the first is suspended; "p1" runs syncMatches
StepPair(p) ==
  /\ Step(p)
  /\ faults' = faults
  /\ calls' <= 2
  /\ inv'["p1"].op # "syncMatchReplay"
  /\ (calls = 1 /\ calls' = 2) => \E q \in Procs \ {p} : Suspended(q)

NextPair == \E p \in Procs : StepPair(p)

SpecPair == Init /\ [][NextPair]_vars

(***************************************************************************)
(* Two overlapping invocations while the upstream data moves on: a change  *)
(* can fall between the list request of one invocation and the writes it   *)
(* makes from the response, which is when the other invocation runs.       *)
(***************************************************************************)
NextRace ==
  \/ \E p \in Procs : StepPair(p)
  \/ \E status \in [Matches -> MatchStatus] : Changed(status)

SpecRace == Init /\ [][NextRace]_vars

(***************************************************************************)
(* The scheduled sync on its own: the cron route calls syncMatches again   *)
(* and again, every credential is configured and the upstream data stays   *)
(* the same.  The scheduler keeps calling and a started invocation runs on:*)
(* a step that can be taken is taken.                                      *)
(***************************************************************************)
InitLive == env = [v \in EnvVars |-> TRUE] /\ Started

NextLive == Step(Caller) /\ inv'[Caller].op # "syncMatchReplay"

SpecLive == InitLive /\ [][NextLive]_vars /\ WF_vars(NextLive)

(***************************************************************************)
(* The API client on its own (client.ts), called against an upstream that  *)
(* answers as a script says.  The rate limit state lives as long as the    *)
(* process and is carried from call to call.                               *)
(***************************************************************************)
RetryAfters == {Null, Some(1), Some(7)}
RateHeaders == {<<Null, Null>>, <<Some(5), Null>>, <<Null, Some(9)>>}
Pages == {<<"m1">>, <<"m2">>}

\* k throttling responses, with every choice of Retry-After headers
Throttles(k) ==
  {[j \in 1..k |-> Answer("429", ra[j], Null, Null, <<>>, FALSE)] : ra \in [1..k -> RetryAfters]}

\* throttling responses, then an answer or a throttling response again
ThrottleScripts ==
  UNION {{t \o <<Plain("none")>> : t \in Throttles(k)} : k \in 0..MAX_RETRIES}
  \cup Throttles(MAX_RETRIES + 1)

\* one response of every outcome with every choice of rate limit headers, on
\* its own or after a throttling response
RateAnswers ==
  {Answer(kind, Null, h[1], h[2], <<>>, FALSE) :
     kind \in {"none", "304", "429", "500", "network"}, h \in RateHeaders}
RateScripts ==
  {<<a>> : a \in RateAnswers}
  \cup {<<a, b>> : a \in {x \in RateAnswers : x.kind = "429"}, b \in RateAnswers}

\* up to three page requests, each answered with a page, "unchanged" or an error
PageAnswers ==
  {Answer("page", Null, Null, Null, page, more) : page \in Pages, more \in BOOLEAN}
  \cup {Plain("304"), Plain("500")}
PageScripts ==
  UNION {[1..n -> PageAnswers] : n \in 1..3}

InitClient ==
  /\ Init
  /\ upStatus = [m \in Matches |-> IF m = "m1" THEN "COMPLETED" ELSE "SCHEDULED"]
  /\ env.NEXT_PUBLIC_SUPABASE_URL /\ env.SUPABASE_SERVICE_ROLE_KEY

\* a call of the client returns r; only the call made last is remembered, so
\* calls follow one another without end
Called(op, token, script, r) ==
  /\ client' = [op |-> op, token |-> token, script |-> script,
                before |-> rateLimit, r |-> r]
  /\ rateLimit' = client'.r.rate
  /\ UNCHANGED <<env, terminated, request, issued, upstream, store, sync_log, inv,
                 calls, faults, downloads, last>>

\* getMatchReplay: one apiFetch
CallGetMatchReplay ==
  \/ \E script \in ThrottleScripts :
       Called("getMatchReplay", Null, script, getMatchReplay("m1", Null, script))
  \/ \E script \in RateScripts :
       \E token \in {Null, Some(LastModifiedToken(replayEndpoint("m1")))} :
         Called("getMatchReplay", token, script, getMatchReplay("m1", token, script))

\* getRecentMatches: fetchAllPages
CallGetRecentMatches ==
  \E script \in PageScripts :
    LET token == Some(LastModifiedToken("recent"))
    IN  Called("getRecentMatches", token, script, getRecentMatches(token, script))

NextClient == CallGetMatchReplay \/ CallGetRecentMatches

SpecClient == InitClient /\ [][NextClient]_vars

(***************************************************************************)
(* Detail persistence on its own: syncMatchReplay is called for a match    *)
(* that an earlier poll stored while it was in progress and that has been  *)
(* completed since, with every detail payload of a family.                 *)
(***************************************************************************)
StatValues == {0, 1, 3, 10}
Energies == -1..101
LongMatches == {498, 499, 500}

\* The detail payloads: one player of one side with every choice of shots and
\* goals, or of tackles and fouls; a turn update with every energy value, the
\* out-of-range ones included; a match start and n turn updates; the lists of
\* up to two events with or without either energy mapping.
Payloads ==
  LET mappings == {Null, Some(<< <<"p1", 100>>, <<"p2", 50>> >>), Some(<< <<"p2", 101>> >>)}
      events == {GameEvent(turn, "TURN_UPDATE", initialEnergy, turnEnergy) :
                   turn \in {1, 2}, initialEnergy \in mappings, turnEnergy \in mappings}
      player == [home |-> "p1", away |-> "p2"]
  IN  {[DefaultPayload EXCEPT ![side] = << PlayerStats(player[side], a, b, 4, 1) >>] :
         side \in {"home", "away"}, a \in StatValues, b \in StatValues}
      \cup
      {[DefaultPayload EXCEPT ![side] = << PlayerStats(player[side], 10, 3, a, b) >>] :
         side \in {"home", "away"}, a \in StatValues, b \in StatValues}
      \cup
      {[DefaultPayload EXCEPT !.events[2] =
          GameEvent(1, "TURN_UPDATE", Null, Some(<< <<"p1", e>> >>))] : e \in Energies}
      \cup
      {[DefaultPayload EXCEPT !.events =
          << GameEvent(0, "MATCH_START", Some(<< <<"p1", 100>>, <<"p2", 100>> >>), Null) >>
          \o [k \in 1..n |->
                GameEvent(k, "TURN_UPDATE", Null, Some(<< <<"p1", 100 - (k % 101)>> >>))]] :
         n \in LongMatches}
      \cup
      {[DefaultPayload EXCEPT !.events = list] :
         list \in UNION {[1..n -> events] : n \in 0..2}}

\* the row of the match as the poll found it, in progress
PolledRow(m) ==
  upsertMatchRow([ApiMatch(m) EXCEPT !.status = "IN_PROGRESS",
                                     !.homeScore = Null, !.awayScore = Null], Null)

InitPersist ==
  /\ env = [v \in EnvVars |-> TRUE]
  /\ upStatus = [m \in Matches |-> IF m = "m1" THEN "COMPLETED" ELSE "SCHEDULED"]
  /\ upVersion = [e \in ListEndpoints |-> IF e = "recent" THEN 1 ELSE 0]
  /\ clock = 1
  /\ payload \in Payloads
  /\ teams = {DEADLY_SINS_TEAM_ID, AwayTeamOf("m1")}
  /\ competitions = {Val(CompetitionOf("m1"))}
  /\ conferences = {Val(ConferenceOf("m1"))}
  /\ leagues = {Val(LeagueOf("m1"))}
  /\ matches = [m \in Matches |-> IF m = "m1" THEN Some(PolledRow(m)) ELSE Null]
  /\ player_match_stats = {}
  /\ match_events = {}
  /\ energy_snapshots = {}
  /\ sync_log =
       << logSync("upcoming", 200, Some([ep |-> "upcoming", t |-> 0]), Some(1), Null, Null),
          logSync("recent", 200, Some([ep |-> "recent", t |-> 0]), Some(1), Null, Null) >>
  /\ inv = [p \in Procs |-> IdleInv]
  /\ calls = 0
  /\ faults = 0
  /\ downloads = [m \in Matches |-> 0]
  /\ last = NoLast
  /\ terminated = 0
  /\ rateLimit = [remaining |-> RATE_LIMIT_REMAINING, reset |-> RATE_LIMIT_RESET]
  /\ client = NoCall
  /\ request = NoRequest
  /\ issued = {<<"upcoming", [ep |-> "upcoming", t |-> 0]>>,
               <<"recent", [ep |-> "recent", t |-> 0]>>}

\* a step of a syncMatchReplay call for the match
NextPersist ==
  /\ Step(Caller)
  /\ inv'[Caller].op # "syncMatches"
  /\ inv'[Caller].matchId \in {"", "m1"}

SpecPersist == InitPersist /\ [][NextPersist]_vars

(***************************************************************************)
(* The administrative triggers: POST /api/sync (route.ts), POST            *)
(* /api/matches/[id]/replay and the server actions triggerFullSync and     *)
(* triggerReplaySync.  A request names the Authorization header it carries;*)
(* Some("secret") is `Bearer ${cronSecret}`.  A trigger that lets a request*)
(* through calls the operation, whose steps are those of the worker;       *)
(* nothing fails here.                                                     *)
(***************************************************************************)
Authorizations == {Null, Some("secret"), Some("other")}

\* if (cronSecret && authHeader !== `Bearer ${cronSecret}`) return 401
Unauthorized(authorization) == env.CRON_SECRET /\ authorization # Some("secret")

\* a trigger has received a request while no earlier one is waiting for its
\* operation to be called; checked says whether it compared the secret
Received(p, trigger, authorization, checked, rejected, op, matchId) ==
  /\ inv[p].op = "idle"
  /\ request.n = calls
  /\ MayCall
  /\ request' = [n |-> IF rejected THEN request.n ELSE request.n + 1,
                 trigger |-> trigger, authorization |-> authorization,
                 checked |-> checked, op |-> op, matchId |-> matchId,
                 status |-> IF rejected THEN 401 ELSE 0]
  /\ UNCHANGED <<env, terminated, client, issued, rateLimit, upstream, store,
                 sync_log, inv, calls, faults, downloads, last>>

\* POST /api/sync
PostSync(p, authorization) ==
  Received(p, "POST /api/sync", authorization, env.CRON_SECRET,
           Unauthorized(authorization), "syncMatches", "")

\* POST /api/matches/[id]/replay
PostReplay(p, id, authorization) ==
  Received(p, "POST /api/matches/[id]/replay", authorization, env.CRON_SECRET,
           Unauthorized(authorization), "syncMatchReplay", id)

triggerFullSync(p) ==
  Received(p, "triggerFullSync", Null, FALSE, FALSE, "syncMatches", "")

triggerReplaySync(p, matchId) ==
  Received(p, "triggerReplaySync", Null, FALSE, FALSE, "syncMatchReplay", matchId)

\* a step of the operation the request let through calls
Invoked(p) ==
  /\ Step(p)
  /\ faults' = faults
  /\ calls' # calls =>
       /\ request.n = calls'
       /\ inv'[p].op = request.op
       /\ inv'[p].matchId = request.matchId

InitAdmin ==
  /\ env \in {[v \in EnvVars \cup {"CRON_SECRET"} |-> v # "CRON_SECRET" \/ secret] :
                secret \in BOOLEAN}
  /\ Started

NextAdmin ==
  \/ \E authorization \in Authorizations : PostSync(Caller, authorization)
  \/ \E id \in Matches, authorization \in Authorizations :
       PostReplay(Caller, id, authorization)
  \/ triggerFullSync(Caller)
  \/ \E matchId \in Matches : triggerReplaySync(Caller, matchId)
  \/ Invoked(Caller)

SpecAdmin == InitAdmin /\ [][NextAdmin]_vars

(***************************************************************************)
(* Properties.                                                             *)
(***************************************************************************)
\* the audit entries with status 200 of an endpoint, oldest first
SuccessEntries(log, e) ==
  SelectSeq(log, LAMBDA r : r.endpoint = e /\ r.http_status = 200)

\* the token of the newest audit entry with status 200 of an endpoint
NewestToken(log, e) ==
  LET rows == SuccessEntries(log, e) IN rows[Len(rows)].last_modified

Marks(tr, kind) == SelectSeq(tr, LAMBDA ev : ev[1] = kind)

\* C1: syncMatches and syncMatchReplay never throw: in every configuration
\* (missing API key or datastore credentials included) a call completes by
\* returning its result, and syncMatchReplay reports success exactly when
\* its upstream request did not fail.
C1_NeverThrows ==
  \A p \in Procs :
    /\ inv[p].pc # "thrown"
    /\ inv[p].op = "syncMatchReplay" /\ inv[p].pc = "done"
         => (inv[p].ret.success <=> inv[p].upErrors = 0)

SecondCall(p) ==
  /\ inv[p].op = "syncMatchReplay" /\ inv[p].pc = "done"
  /\ last.op = "syncMatchReplay"
  /\ last.matchId = inv[p].matchId
  /\ last.ret.success

SecondCallNoOp(p) ==
  /\ inv[p].ret = [success |-> TRUE, notModified |-> TRUE]
  /\ Marks(inv[p].trace, "persist") = <<>>
  /\ store = last.store

UnchangedPoll(p) ==
  \/ inv[p].pc = "log_list" /\ inv[p].resp.notModified
  \/ inv[p].pc = "replay_log" /\ inv[p].replay.notModified

WritePcs ==
  {"upsert_home", "upsert_away", "upsert_competition", "upsert_conference",
   "upsert_league", "upsert_match", "persist_match", "persist_stats",
   "persist_events", "persist_energy"}

\* the handling of an "unchanged" answer writes no record, and the audit entry
\* it appends holds the given counts
ShortCircuit(p, found, new) ==
  /\ store' = store
  /\ inv'[p].pc \notin WritePcs
  /\ sync_log' # sync_log =>
       /\ sync_log' = Append(sync_log, sync_log'[Len(sync_log')])
       /\ sync_log'[Len(sync_log')].http_status = 304
       /\ sync_log'[Len(sync_log')].matches_found = found
       /\ sync_log'[Len(sync_log')].matches_new = new

\* C4 as stated: for every endpoint, when the upstream answers "unchanged" no
\* record is written and the audit entry appended for the poll records zero
\* found and zero new.
C4_UnchangedWritesNothing ==
  [][\A p \in Procs :
       UnchangedPoll(p) /\ inv'[p] # inv[p] => ShortCircuit(p, 0, 0)]_vars

\* C4 as it holds: no record is written for any endpoint; the audit entry
\* records zero found and zero new for "upcoming" and "recent", and one found
\* and zero new for a per-match detail endpoint.
C4_UnchangedWritesNothingCounts ==
  [][\A p \in Procs :
       UnchangedPoll(p) /\ inv'[p] # inv[p]
       => ShortCircuit(p, IF inv[p].pc = "replay_log" THEN 1 ELSE 0, 0)]_vars

C4_Witness ==
  /\ \E k \in 1..Len(sync_log) :
       sync_log[k].http_status = 304 /\ sync_log[k].endpoint \in ListEndpoints
  /\ \E k \in 1..Len(sync_log) :
       sync_log[k].http_status = 304 /\ IsReplayEndpoint(sync_log[k].endpoint)

\* C5: at the start of a syncMatches call, for "upcoming" and for "recent",
\* the conditional token to be sent is the token of the most recent audit
\* entry with status 200 of that endpoint, whenever there is such an entry.
C5_NewestTokenSent ==
  \A p \in Procs :
    inv[p].pc = "fetch_upcoming" =>
      \A e \in ListEndpoints :
        SuccessEntries(sync_log, e) # <<>> =>
          inv[p].lastModifiedMap[e] = NewestToken(sync_log, e)

\* a syncMatches call has returned its results
SyncDone(p) == inv[p].op = "syncMatches" /\ inv[p].pc = "done"

IdsOf(evs) == [k \in 1..Len(evs) |-> evs[k][2]]
DetailIds(p) == IdsOf(Marks(inv[p].trace, "detail"))

Tracked(m) == m.homeTeam = DEADLY_SINS_TEAM_ID \/ m.awayTeam = DEADLY_SINS_TEAM_ID
Eligible(m) == Tracked(m) /\ m.status = "COMPLETED"

C7_UpcomingTrackedRecentAll ==
  \A p \in Procs :
    LET f == inv[p]
        both == <<"m1", "m2">>
    IN  /\ SyncDone(p) =>
             /\ f.upserted["upcoming"] = Ids(SelectSeq(f.polled["upcoming"], Tracked))
             /\ f.upserted["recent"] = Ids(f.polled["recent"])
             /\ f.results.upcoming = Len(f.upserted["upcoming"])
             /\ f.results.recent = Len(f.polled["recent"])
             /\ faults = 0 =>
                  \A ph \in ListEndpoints : \A k \in 1..Len(f.upserted[ph]) :
                    ~IsNull(matches[f.upserted[ph][k]])
             /\ /\ Ids(f.polled["upcoming"]) = both
                /\ Ids(f.polled["recent"]) = both
                /\ \E k \in 1..2 : Eligible(f.polled["recent"][k])
                => f.results.replaysQueued = 1 /\ DetailIds(p) = <<"m1">>
        /\ f.op = "syncMatches" /\ f.pc = "fetch_recent" /\ f.logAtStart = <<>>
           /\ calls = 1
           => \A m \in Matches :
                ~IsNull(matches[m]) =>
                  \E k \in 1..Len(f.polled["upcoming"]) :
                    f.polled["upcoming"][k].id = m /\ Tracked(f.polled["upcoming"][k])

C7_Witness ==
  \E p \in Procs :
    /\ SyncDone(p)
    /\ Ids(inv[p].polled["upcoming"]) = <<"m1", "m2">>
    /\ Ids(inv[p].polled["recent"]) = <<"m1", "m2">>
    /\ inv[p].upserted = [upcoming |-> <<"m1">>, recent |-> <<"m1", "m2">>]
    /\ inv[p].results.replaysQueued = 1
    /\ ~IsNull(matches["m1"]) /\ ~IsNull(matches["m2"])

Appended(p) == SubSeq(sync_log, inv[p].logStart + 1, Len(sync_log))

Count(rows, e) == Len(SelectSeq(rows, LAMBDA r : r.endpoint = e))

\* the polls and detail fetches of an endpoint the invocation has attempted
Attempts(p, e) ==
  IF inv[p].op = "syncMatchReplay"
  THEN IF e = replayEndpoint(inv[p].matchId) THEN 1 ELSE 0
  ELSE IF e \in ListEndpoints
  THEN Len(SelectSeq(inv[p].trace, LAMBDA ev : ev = <<"poll", e>>))
  ELSE Len(SelectSeq(inv[p].trace, LAMBDA ev : ev = <<"detail", MatchOfEndpoint(e)>>))

\* a call has returned having polled "upcoming" and "recent" once each, or
\* having requested the detail of its match
AttemptsMade(p) ==
  /\ inv[p].pc = "done"
  /\ inv[p].op = "syncMatches" =>
       \A e \in ListEndpoints : Attempts(p, e) = 1

AppendOnly(p) ==
  /\ Len(sync_log) >= inv[p].logStart
  /\ SubSeq(sync_log, 1, inv[p].logStart) = inv[p].logAtStart

\* C9 as stated: a call appends exactly one audit entry for every poll or
\* detail fetch it attempts, whatever the outcome, and no audit entry is ever
\* modified or removed.
C9_OneEntryPerAttempt ==
  \A p \in Procs :
    inv[p].op # "idle" =>
      /\ AppendOnly(p)
      /\ inv[p].pc = "done" =>
           /\ AttemptsMade(p)
           /\ \A e \in Endpoints : Count(Appended(p), e) = Attempts(p, e)

\* C9 as it holds: a call attempts one audit insert for every poll or detail
\* fetch, whatever the outcome; the entry is appended unless that insert
\* fails, and no audit entry is ever modified or removed.
C9_OneEntryPerAttemptUnlessInsertFails ==
  \A p \in Procs :
    inv[p].op # "idle" =>
      /\ AppendOnly(p)
      /\ inv[p].pc = "done" =>
           /\ AttemptsMade(p)
           /\ \A e \in Endpoints :
                Count(Appended(p), e) =
                  Attempts(p, e) - (IF e \in inv[p].auditFailed THEN 1 ELSE 0)

C9_Witness ==
  \E p \in Procs :
    /\ SyncDone(p)
    /\ inv[p].logStart > 0
    /\ Count(Appended(p), "upcoming") = 1
    /\ Count(Appended(p), "recent") = 1
    /\ Count(Appended(p), replayEndpoint("m1")) = 1
    /\ \E k \in 1..Len(Appended(p)) : Appended(p)[k].http_status = 0

\* C10: the errorCount syncMatches returns is zero only if no upstream
\* request of the call failed, list polls and detail fetches alike.
C10_ErrorsCounted ==
  \A p \in Procs : SyncDone(p) /\ inv[p].results.errors = 0 => inv[p].upErrors = 0

\* the matches the upstream data asks the store to hold
MatchesDue ==
  {m \in Matches : upStatus[m] # "SCHEDULED" \/ Tracked(ApiMatch(m))}
\* the matches whose detail the upstream data asks the store to hold
DetailsDue == {m \in Matches : Eligible(ApiMatch(m))}

\* the store holds what an uninterrupted run on the upstream data produces
StoreResumed ==
  /\ \A m \in MatchesDue : ~IsNull(matches[m])
  /\ \A m \in DetailsDue : ReplayFetched(m)

\* a syncMatches call has run to its end without any error
CleanSyncDone(p) == SyncDone(p) /\ inv[p].results.errors = 0 /\ inv[p].auditFailed = {}

\* C11: when the first invocation is terminated at a suspension point and
\* nothing else fails, a later syncMatches call that runs to its end against
\* the same upstream data leaves every match record of the polls persisted and
\* the detail of every completed match of the tracked team persisted.
C11_ResumableAfterTermination ==
  \A p \in Procs :
    (terminated = 1 /\ faults = 1 /\ calls = 2 /\ CleanSyncDone(p)) => StoreResumed

\* an uninterrupted first call leaves the store complete
C11_UninterruptedComplete ==
  \A p \in Procs :
    (terminated = 0 /\ faults = 0 /\ calls = 1 /\ CleanSyncDone(p)) => StoreResumed


\* the rows a single syncMatches call leaves in the store for the upstream data
SingleRunMatches ==
  [m \in Matches |->
     IF m \notin MatchesDue THEN Null
     ELSE LET row == upsertMatchRow(ApiMatch(m), Null)
          IN  IF m \in DetailsDue
              THEN Some(replayMatchUpdate(row, ApiReplayData(m)))
              ELSE Some(row)]
SingleRunStats ==
  UNION {Range(statsRows(m, ApiReplayData(m))) : m \in DetailsDue}
SingleRunEvents ==
  IF HasUniqueConstraint("match_events")
  THEN UNION {Range(eventRows(m, ApiReplayData(m))) : m \in DetailsDue}
  ELSE {}
SingleRunEnergy ==
  UNION {Range(extractEnergySnapshots(m, ApiReplayData(m).events)) : m \in DetailsDue}

\* both invocations of the pair have returned
PairReturned == calls = 2 /\ \A p \in Procs : inv[p].op = "idle"

\* C12: when two overlapping invocations (syncMatches with syncMatches or with
\* syncMatchReplay) have returned, the match, stat, event and energy rows are
\* those a single syncMatches call produces for the same upstream data.
C12_OverlapSameAsSingle ==
  (PairReturned /\ \A v \in EnvVars : env[v]) =>
     /\ matches = SingleRunMatches
     /\ player_match_stats = SingleRunStats
     /\ match_events = SingleRunEvents
     /\ energy_snapshots = SingleRunEnergy

\* what does hold: stats and energy rows of a match are never in a different
\* state than a single run leaves them
C12_RowsNeverDiffer ==
  /\ player_match_stats \subseteq SingleRunStats
  /\ energy_snapshots \subseteq SingleRunEnergy
  /\ \A m \in Matches : ReplayFetched(m) => matches[m] = SingleRunMatches[m]


\* a client call has been made with the API key configured
ClientCalled(op) == client.op = op /\ env.SHOCKBALL_API_KEY

\* the number of throttling responses a script starts with
LeadingThrottles(script) ==
  CHOOSE n \in 0..Len(script) :
    /\ \A j \in 1..n : script[j].kind = "429"
    /\ n = Len(script) \/ script[n + 1].kind # "429"

\* C13: a client call makes at most 3 retries; answered with 4 consecutive
\* throttling responses it fails with the fatal rate limit error after the
\* 3rd retry, having sent 4 requests and no 5th.
C13_AtMostThreeRetries ==
  ClientCalled("getMatchReplay") =>
    LET r == client.r
    IN  /\ Len(r.waits) <= 3
        /\ r.requests <= 4
        /\ LeadingThrottles(client.script) >= 4 =>
             /\ r.throw /\ r.error = "rate_limit"
             /\ Len(r.waits) = 3
             /\ r.requests = 4
        /\ LeadingThrottles(client.script) < 4 => ~(r.throw /\ r.error = "rate_limit")

C13_Witness ==
  /\ ClientCalled("getMatchReplay")
  /\ LeadingThrottles(client.script) = 4
  /\ client.r.throw /\ client.r.requests = 4

\* the Retry-After value, in milliseconds, a throttling response advertises
\* (60 seconds when it advertises none)
AdvertisedMs(answer) ==
  IF IsNull(answer.retryAfter) THEN 60000 ELSE Val(answer.retryAfter) * 1000

\* the exponential backoff before retry k, in milliseconds: 5s, 10s, 20s
BackoffMs(k) == CASE k = 1 -> 5000 [] k = 2 -> 10000 [] OTHER -> 20000

\* the wait before retry k is the backoff capped at the advertised value
WaitsCapped ==
  \A k \in 1..Len(client.r.waits) :
    client.r.waits[k] = Min(BackoffMs(k), AdvertisedMs(client.script[k]))

\* C14 as stated: within one throttled call the wait before retry k+1 is never
\* shorter than the wait before retry k, for every sequence of advertised
\* retry-after values; the waits are 5s, 10s, 20s, each capped at the
\* retry-after value of the response that triggered it.
C14_WaitsNeverShorter ==
  ClientCalled("getMatchReplay") =>
    /\ \A k \in 1..(Len(client.r.waits) - 1) : client.r.waits[k + 1] >= client.r.waits[k]
    /\ WaitsCapped

\* C14 amended: the wait before retry k is min(5s * 2^(k-1), retry-after of
\* the response that triggered it, 60s when it advertises none); the wait
\* before retry k+1 is not shorter than the wait before retry k whenever the
\* later response advertises no smaller retry-after value than the earlier.
C14_WaitsCappedNeverShorterUnlessCapDrops ==
  ClientCalled("getMatchReplay") =>
    /\ \A k \in 1..(Len(client.r.waits) - 1) :
         AdvertisedMs(client.script[k + 1]) >= AdvertisedMs(client.script[k])
           => client.r.waits[k + 1] >= client.r.waits[k]
    /\ WaitsCapped
    /\ (\A k \in 1..Len(client.r.waits) : IsNull(client.script[k].retryAfter))
         => client.r.waits = SubSeq(<<5000, 10000, 20000>>, 1, Len(client.r.waits))

C14_Witness ==
  /\ ClientCalled("getMatchReplay")
  /\ client.r.waits = <<5000, 7000, 1000>>


\* the answers the requests of the call made last have received
Consumed == SubSeq(client.script, 1, Min(client.r.requests, Len(client.script)))

\* the records of the pages answered, in page order
RECURSIVE PageRecords(_)
PageRecords(answers) ==
  IF answers = <<>>
  THEN <<>>
  ELSE [k \in 1..Len(Head(answers).page) |-> ApiMatch(Head(answers).page[k])]
       \o PageRecords(Tail(answers))

\* every request of the listing made last was answered with a page
AllPages == \A k \in 1..Len(Consumed) : Consumed[k].kind = "page"

C16_UnchangedOnlyFromFirstPage ==
  ClientCalled("getRecentMatches") =>
    LET r == client.r
    IN  /\ r.notModified => client.script[1].kind = "304"
        /\ \A k \in 2..Len(Consumed) :
             (Consumed[k].kind = "304" /\ ~r.throw) =>
                r.matches = PageRecords(SubSeq(Consumed, 1, k - 1))

\* the value of a rate limit header the responses to a call carried last, or
\* the value before the call; a network failure is no response
RECURSIVE LastCarried(_, _, _)
LastCarried(answers, header, before) ==
  IF answers = <<>>
  THEN before
  ELSE LET a == answers[Len(answers)]
           front == SubSeq(answers, 1, Len(answers) - 1)
       IN  IF a.kind # "network" /\ ~IsNull(a[header])
           THEN Val(a[header])
           ELSE LastCarried(front, header, before)

\* C17: the rate limit status reports the remaining count and the reset time
\* of the most recent response that carried them, whatever its outcome; a
\* response without them and a network failure leave the state as it was;
\* isLow is remaining < 10; before any response remaining is 100 and not low.
C17_RateStatusFollowsLastMetadata ==
  /\ getRateLimitStatus.isLow <=> getRateLimitStatus.remaining < 10
  /\ getRateLimitStatus.resetsAt = rateLimit.reset * 1000
  /\ client.op = "none" =>
       /\ getRateLimitStatus.remaining = 100
       /\ ~getRateLimitStatus.isLow
  /\ client.op # "none" =>
       /\ getRateLimitStatus.remaining =
            LastCarried(Consumed, "remaining", client.before.remaining)
       /\ rateLimit.reset = LastCarried(Consumed, "reset", client.before.reset)

C17_Witness ==
  /\ ClientCalled("getMatchReplay")
  /\ client.before = [remaining |-> 100, reset |-> 9]
  /\ Len(Consumed) = 2
  /\ Consumed[1].remaining = Some(5) /\ Consumed[1].kind = "429"
  /\ Consumed[2].kind = "500" /\ IsNull(Consumed[2].remaining)
  /\ getRateLimitStatus = [remaining |-> 5, resetsAt |-> 9000, isLow |-> TRUE]

\* C18: an application error response, a network failure and a missing API
\* key end the call at once: one request in the first two cases, none in the
\* third; a request is repeated only after a throttling response.
C18_FailsWithoutRetry ==
  client.op # "none" =>
    LET r == client.r
        first == client.script[1].kind
    IN  /\ ~env.SHOCKBALL_API_KEY =>
             r.throw /\ r.error = "config" /\ r.requests = 0 /\ r.waits = <<>>
        /\ (env.SHOCKBALL_API_KEY /\ first = "500") =>
             r.throw /\ r.error = "api_error" /\ r.requests = 1 /\ r.waits = <<>>
        /\ (env.SHOCKBALL_API_KEY /\ first = "network") =>
             r.throw /\ r.error = "network" /\ r.requests = 1 /\ r.waits = <<>>
        /\ ClientCalled("getMatchReplay") =>
             /\ r.requests = Len(r.waits) + 1
             /\ \A k \in 1..Len(r.waits) : client.script[k].kind = "429"
        /\ ClientCalled("getRecentMatches") => r.waits = <<>>

C18_Witness ==
  /\ ClientCalled("getMatchReplay")
  /\ Len(client.script) = 2
  /\ client.script[1].kind = "429" /\ client.script[2].kind = "500"
  /\ client.r.throw /\ client.r.error = "api_error" /\ client.r.requests = 2


\* C19: upsertMatch has written both team rows and every competition,
\* conference and league row of the payload when it writes the match row:
\* unless one of those writes failed, the foreign keys of the match row hold,
\* whatever was in the store and whatever matches were upserted before.
C19_ReferencesBeforeMatchRow ==
  \A p \in Procs :
    (inv[p].pc = "upsert_match" /\ inv[p].refsOk) =>
       LET match == inv[p].list[inv[p].i]
       IN  /\ match.homeTeam \in teams /\ match.awayTeam \in teams
           /\ ~IsNull(match.competition) => Val(match.competition) \in competitions
           /\ ~IsNull(match.conference) => Val(match.conference) \in conferences
           /\ ~IsNull(match.league) => Val(match.league) \in leagues
           /\ MatchForeignKeysHold(upsertMatchRow(match, matches[match.id]))

\* the second match of a list is about to be written for the first time, with
\* a team no earlier match has brought into the store
C19_Witness ==
  \E p \in Procs :
    /\ inv[p].pc = "upsert_match" /\ inv[p].refsOk
    /\ Len(inv[p].list) = 2 /\ inv[p].i = 2
    /\ IsNull(matches[inv[p].list[2].id])
    /\ ~IsNull(matches[inv[p].list[1].id])
    /\ inv[p].list[2].awayTeam = "tB"


\* the detail of match m has been persisted and no invocation is running
DetailPersisted(m) ==
  /\ ReplayFetched(m)
  /\ faults = 0
  /\ \A p \in Procs : inv[p].op = "idle"

EventKeys(m) ==
  {<<e.match_id, e.turn, e.type>> : e \in Range(eventRows(m, ApiReplayData(m)))}
EnergyKeys(m) ==
  {<<e.match_id, e.player_id, e.turn>> :
     e \in Range(extractEnergySnapshots(m, ApiReplayData(m).events))}

\* C20: once match detail has been persisted, any number of times and without
\* any failure, match_events holds exactly one row for every (match, turn,
\* type) key of the payload and energy_snapshots exactly one row for every
\* (match, player, turn) key.
C20_OneRowPerKey ==
  \A m \in Matches :
    DetailPersisted(m) =>
      /\ \A key \in EventKeys(m) :
           Cardinality({r \in match_events : <<r.match_id, r.turn, r.type>> = key}) = 1
      /\ \A key \in EnergyKeys(m) :
           Cardinality({r \in energy_snapshots :
                          <<r.match_id, r.player_id, r.turn>> = key}) = 1

\* the energy half holds
C20_OneEnergyRowPerKey ==
  \A m \in Matches :
    DetailPersisted(m) =>
      \A key \in EnergyKeys(m) :
        Cardinality({r \in energy_snapshots :
                       <<r.match_id, r.player_id, r.turn>> = key}) = 1

\* the sizes of the batches n rows are sent in: 500 each, the remainder last
Chunks(n) ==
  [k \in 1..((n + 499) \div 500) |->
     IF n - 500 * (k - 1) < 500 THEN n - 500 * (k - 1) ELSE 500]

MappingSize(mapping) == IF IsNull(mapping) THEN 0 ELSE Len(Val(mapping))

\* the number of entries of the energy mappings of a list of events
EnergyCount(events) ==
  Cardinality(UNION {({k} \X {0} \X (1..MappingSize(events[k].context.initialEnergy)))
                     \cup ({k} \X {1} \X (1..MappingSize(events[k].context.turnEnergy))) :
                     k \in 1..Len(events)})

\* the writes of one detail persistence, in their order, with their row counts
ExpectedWrites ==
  << [table |-> "matches", rows |-> 1],
     [table |-> "player_match_stats", rows |-> Len(payload.home) + Len(payload.away)] >>
  \o [k \in 1..Len(Chunks(Len(payload.events))) |->
        [table |-> "match_events", rows |-> Chunks(Len(payload.events))[k]]]
  \o [k \in 1..Len(Chunks(EnergyCount(payload.events))) |->
        [table |-> "energy_snapshots", rows |-> Chunks(EnergyCount(payload.events))[k]]]

WritesSent(p) ==
  [k \in 1..Len(inv[p].writes) |->
     [table |-> inv[p].writes[k].table, rows |-> inv[p].writes[k].rows]]

PersistPcs == {"persist_match", "persist_stats", "persist_events", "persist_energy"}

\* the detail row of a match, once written, and every stat, event and energy
\* row stay as they are
RowsStay ==
  /\ \A m \in Matches : ReplayFetched(m) => matches'[m] = matches[m]
  /\ player_match_stats \subseteq player_match_stats'
  /\ match_events \subseteq match_events'
  /\ energy_snapshots \subseteq energy_snapshots'

\* C21: detail persistence sends its writes in the order match update, player
\* stats, event batches, energy batches, no batch larger than 500 rows; when
\* it has returned every one of them has been sent, whichever of them failed,
\* and no write removes or changes a row an earlier write stored.
C21_OrderedBatchesBestEffort ==
  /\ [](\A p \in Procs :
          /\ Len(inv[p].writes) <= Len(ExpectedWrites)
          /\ WritesSent(p) = SubSeq(ExpectedWrites, 1, Len(inv[p].writes))
          /\ \A k \in 1..Len(inv[p].writes) : inv[p].writes[k].rows <= 500
          /\ (inv[p].pc = "done" /\ Marks(inv[p].trace, "persist") # <<>>)
               => WritesSent(p) = ExpectedWrites)
  /\ [][\A p \in Procs : inv[p].pc \in PersistPcs => RowsStay]_vars

\* a call has returned after a failed stats write and two event batches, with
\* the energy rows of both energy batches stored
C21_Witness ==
  \E p \in Procs :
    /\ inv[p].pc = "done"
    /\ Len(inv[p].writes) = 6
    /\ ~inv[p].writes[2].ok
    /\ inv[p].writes[3] = [table |-> "match_events", rows |-> 500, ok |-> FALSE]
    /\ inv[p].writes[5] = [table |-> "energy_snapshots", rows |-> 500, ok |-> TRUE]
    /\ inv[p].writes[6].ok
    /\ player_match_stats = {}
    /\ Cardinality(energy_snapshots) = 500 + inv[p].writes[6].rows
    /\ ReplayFetched(inv[p].matchId)
\* the snapshots the extractor returns for the payload of the running call
Extracted(p) == extractEnergySnapshots(inv[p].matchId, replayData(inv[p]).events)

\* the tuple an entry <<player, energy>> of a mapping gives at a turn
Tuple(m, turn, entry) ==
  [match_id |-> m, player_id |-> entry[1], turn |-> turn, energy |-> entry[2]]

\* C22: for the event list of the payload the extractor returns one tuple per
\* entry of every initial-energy mapping, with turn 0, and one per entry of
\* every turn-energy mapping, with the turn of its event, event after event
\* and within an event the initial-energy entries first, and nothing else;
\* the energy values are those of the mappings, valid or not, and the event
\* list is as the upstream sent it.
C22_OneTuplePerMappingKey ==
  \A p \in Procs :
    inv[p].pc = "persist_energy" =>
      LET events == payload.events
          out == Extracted(p)
          Before(k) == EnergyCount(SubSeq(events, 1, k - 1))
      IN  /\ replayData(inv[p]).events = events
          /\ Len(out) = EnergyCount(events)
          /\ \A k \in 1..Len(events) :
               LET initial == events[k].context.initialEnergy
                   turn == events[k].context.turnEnergy
               IN  /\ \A j \in 1..MappingSize(initial) :
                        out[Before(k) + j] = Tuple(inv[p].matchId, 0, Val(initial)[j])
                   /\ \A j \in 1..MappingSize(turn) :
                        out[Before(k) + MappingSize(initial) + j]
                          = Tuple(inv[p].matchId, events[k].turn, Val(turn)[j])

\* two events, the first with both mappings and an energy of 101
C22_Witness ==
  \E p \in Procs :
    /\ inv[p].pc = "persist_energy"
    /\ Len(payload.events) = 2
    /\ Extracted(p) = << Tuple("m1", 0, <<"p1", 100>>), Tuple("m1", 0, <<"p2", 50>>),
                         Tuple("m1", 2, <<"p2", 101>>),
                         Tuple("m1", 1, <<"p1", 100>>), Tuple("m1", 1, <<"p2", 50>>) >>
ExactRate(rate, num, den) == Val(rate) * den = 10000 * num
\* a stored rate is num/den to the nearest ten-thousandth
RoundedRate(rate, num, den) ==
  /\ 2 * (Val(rate) * den - 10000 * num) <= den
  /\ 2 * (10000 * num - Val(rate) * den) < den

\* C24 as stated: in every stored player stat row goal conversion is null
\* exactly when shots = 0 and otherwise equals goals/shots, and foul rate is
\* null exactly when tackles = 0 and otherwise equals fouls/tackles.
C24_RatesExact ==
  \A r \in player_match_stats :
    /\ IsNull(r.shot_conversion_rate) <=> r.shots = 0
    /\ r.shots # 0 => ExactRate(r.shot_conversion_rate, r.goals, r.shots)
    /\ IsNull(r.foul_rate) <=> r.tackles = 0
    /\ r.tackles # 0 => ExactRate(r.foul_rate, r.fouls, r.tackles)

\* C24 as it holds: in every stored player stat row of either side goal
\* conversion is null exactly when shots = 0 and otherwise goals/shots rounded
\* to four decimal places (0.3000 for shots = 10, goals = 3), and foul rate is
\* null exactly when tackles = 0 and otherwise fouls/tackles rounded to four
\* decimal places.
C24_RatesRounded ==
  \A r \in player_match_stats :
    /\ IsNull(r.shot_conversion_rate) <=> r.shots = 0
    /\ r.shots # 0 => RoundedRate(r.shot_conversion_rate, r.goals, r.shots)
    /\ (r.shots = 10 /\ r.goals = 3) => r.shot_conversion_rate = Some(3000)
    /\ IsNull(r.foul_rate) <=> r.tackles = 0
    /\ r.tackles # 0 => RoundedRate(r.foul_rate, r.fouls, r.tackles)

\* an away player with one goal from three shots is stored, and a home
\* player with three goals from ten shots
C24_Witness ==
  \E r \in player_match_stats :
    /\ ~r.is_home_team
    /\ r.shots = 3 /\ r.goals = 1 /\ r.shot_conversion_rate = Some(3333)
    /\ r.foul_rate = Some(2500)
    /\ \E q \in player_match_stats : q.is_home_team /\ q.shot_conversion_rate = Some(3000)
\* the request that called the running operation carried the shared secret,
\* and its trigger compared it
PassedSecretCheck == request.checked /\ request.authorization = Some("secret")

\* C25: no administrative trigger calls syncMatches or syncMatchReplay unless
\* the request has passed the shared-secret check, whether or not a secret is
\* configured.
C25_NoCallWithoutSecret ==
  \A p \in Procs : inv[p].op # "idle" => PassedSecretCheck

\* what does hold: with the secret configured, the two routes call the
\* operations for requests that carry it only
C25_RoutesCheckConfiguredSecret ==
  \A p \in Procs :
    (inv[p].op # "idle" /\ env.CRON_SECRET /\ request.trigger \in
       {"POST /api/sync", "POST /api/matches/[id]/replay"}) => PassedSecretCheck
\* the store holds match m as its detail gives it: COMPLETED, with the final
\* scores, the version tag and replay_fetched = true
DetailStored(m) ==
  /\ ~IsNull(matches[m])
  /\ Val(matches[m]).status = "COMPLETED"
  /\ Val(matches[m]).home_score = Some(HomeScoreOf(m))
  /\ Val(matches[m]).away_score = Some(AwayScoreOf(m))
  /\ Val(matches[m]).sim_version = Some(SimVersionOf(m))
  /\ Val(matches[m]).replay_fetched

\* C26: whenever syncMatchReplay(id) returns success = true with
\* wasUnchanged = false, the store holds match id marked COMPLETED with the
\* final scores, the version tag and replay_fetched = true, also for an id
\* that had no match row before the call.
C26_SuccessMeansStored ==
  \A p \in Procs :
    (/\ inv[p].op = "syncMatchReplay" /\ inv[p].pc = "done"
     /\ inv[p].ret.success /\ ~inv[p].ret.notModified)
    => DetailStored(inv[p].matchId)

\* a match whose detail has been fetched is completed and has its scores
DetailFetchedCompleted ==
  \A m \in Matches :
    ReplayFetched(m) =>
      /\ Val(matches[m]).status = "COMPLETED"
      /\ ~IsNull(Val(matches[m]).home_score)
      /\ ~IsNull(Val(matches[m]).away_score)

\* C27: in every reachable state, after any sequence or interleaving of list
\* upserts and detail persistence, a match whose replay_fetched flag is true
\* has status COMPLETED and scores that are not null, and its flag never
\* returns to false.
C27_DetailFetchedStaysCompleted ==
  /\ []DetailFetchedCompleted
  /\ [][\A m \in Matches : ReplayFetched(m) => ReplayFetched(m)']_vars

\* the stat, event and energy rows of the detail payload of match m are stored
DetailRowsStored(m) ==
  LET data == ApiReplayData(m)
  IN  /\ \A n \in Range(statsRows(m, data)) :
           \E r \in player_match_stats :
             r.match_id = n.match_id /\ r.player_id = n.player_id
      /\ \A n \in Range(eventRows(m, data)) :
           \E r \in match_events :
             r.match_id = n.match_id /\ r.turn = n.turn /\ r.type = n.type
      /\ \A n \in Range(extractEnergySnapshots(m, data.events)) :
           \E r \in energy_snapshots :
             r.match_id = n.match_id /\ r.player_id = n.player_id /\ r.turn = n.turn

\* no invocation is in the middle of persisting the detail of match m
NotPersisting(m) ==
  \A p \in Procs : ~(inv[p].matchId = m /\ inv[p].pc \in PersistPcs)

\* C28: in every reachable state a match whose replay_fetched flag is true has
\* all player stat rows, event rows and energy snapshot rows of its detail
\* payload stored, also after a failed stats or batch write; the states in
\* which an invocation is still writing the rows of the match are left aside.
C28_FetchedMeansAllRows ==
  \A m \in Matches :
    (ReplayFetched(m) /\ NotPersisting(m)) => DetailRowsStored(m)

\* a completed match of the tracked team that a "recent" response has brought
\* into the store and whose detail is not persisted
PendingDetail(m) ==
  /\ ~IsNull(matches[m])
  /\ Val(matches[m]).status = "COMPLETED"
  /\ Val(matches[m]).involves_deadly_sins
  /\ ~Val(matches[m]).replay_fetched

HeldTokenIssued(p) ==
  /\ \A e \in ListEndpoints :
       inv[p].pc = (IF e = "upcoming" THEN "fetch_upcoming" ELSE "fetch_recent")
       => \/ IsNull(inv[p].lastModifiedMap[e])
          \/ <<e, Val(inv[p].lastModifiedMap[e])>> \in issued
  /\ inv[p].pc = "replay_fetch"
       => \/ IsNull(inv[p].lastSync)
          \/ <<replayEndpoint(inv[p].matchId), Val(inv[p].lastSync)>> \in issued

\* C30: every conditional token sent for an endpoint key ("upcoming",
\* "recent" or the key of a match) is a token that a successful (200) response
\* to the same endpoint key returned earlier, never one of an error or
\* unchanged entry, of the other list endpoint or of another match.
C30_SentTokensWereIssued == \A p \in Procs : HeldTokenIssued(p)

\* a detail request is about to be sent with a token, after both list requests
\* of the same pass were sent with one
C30_Witness ==
  \E p \in Procs :
    /\ inv[p].op = "syncMatches" /\ inv[p].pc = "replay_fetch"
    /\ ~IsNull(inv[p].lastSync)
    /\ \A e \in ListEndpoints : ~IsNull(inv[p].lastModifiedMap[e])

====
